---------------------------- MODULE Spec2Model ----------------------------
(***************************************************************************)
(* Model of the occlusion-query visibility cache of                        *)
(* fyrox-impl/src/renderer/visibility.rs (ObserverVisibilityCache and the  *)
(* per-observer registry VisibilityCache) and of the tile editing          *)
(* operations of fyrox-impl/src/scene/tilemap (update.rs, tile_source.rs). *)
(*                                                                         *)
(* Each subsystem has its own specification; the variables of the other    *)
(* subsystems stay at their unused value.                                  *)
(*                                                                         *)
(* World coordinates are fixed-point numbers in hundredths of a unit, so   *)
(* the vector <<26, 0, 0>> is the world position (0.26, 0, 0).  A panic    *)
(* (a failed `expect`) is the flag `aborted`; an aborted cache takes no    *)
(* further step.                                                           *)
(***************************************************************************)
EXTENDS Integers, Sequences, FiniteSets, TLC

VARIABLES
    cells,                       \* FxHashMap<Vector3<i32>, NodeVisibilityMap>
    pending_queries,             \* Vec<PendingQuery>
    granularity,                 \* Vector3<u32>
    distance_discard_threshold,  \* f32, in hundredths
    aborted,                     \* TRUE once an `expect` has failed
    last,                        \* the last call: its inputs and its result
    seenVisible,                 \* history: the <<cell, node>> pairs seen Visible
    history,                     \* whether seenVisible is kept (fixed by Init)
    observers,                   \* VisibilityCache::observers
    graph,                       \* the scene graph: observer -> global position
    data,                        \* a TileData
    data_update,                 \* a TileDataUpdate
    tiles,                       \* a Tiles
    tiles_update,                \* a TilesUpdate
    trans_update,                \* a TransTilesUpdate
    brush,                       \* the tile source a drawing operation reads
    set_update,                  \* a TileSetUpdate
    tile_set,                    \* a TileSet: its pages and its tiles
    collider_node                \* a Collider scene node

cacheVars == <<cells, pending_queries, granularity, distance_discard_threshold,
               seenVisible, history>>
registryVars == <<observers, graph>>
tileVars == <<data, data_update, tiles, tiles_update, trans_update, brush>>
convertVars == <<set_update, tile_set>>

vars == <<cacheVars, aborted, last, registryVars, tileVars, convertVars, collider_node>>

(***************************************************************************)
(* Bounds of the model.                                                    *)
(***************************************************************************)
MaxPending == 2

\* The node handles the calls draw from.
Nodes == {"node"}

\* Observer positions the calls draw from (hundredths of a unit).
Positions == {<<0, 0, 0>>, <<24, 0, 0>>, <<0, 150, 0>>}

Granularities == {<<2, 2, 2>>}

Thresholds == {150}

\* What graph.try_get(node) can yield: no node, or a node with one of these
\* world bounding boxes.
NoNode == [absent |-> TRUE]
Boxes == {[min |-> <<-50, -50, -50>>, max |-> <<50, 50, 50>>],
          [min |-> <<900, 900, 900>>, max |-> <<950, 950, 950>>]}
NodeRefs == {NoNode} \cup Boxes

None == "None"
Undefined == "Undefined"
Invisible == "Invisible"
Visible == "Visible"
Visibility == {Undefined, Invisible, Visible}

(***************************************************************************)
(* Vector arithmetic.                                                      *)
(***************************************************************************)
Abs(x) == IF x < 0 THEN -x ELSE x

\* f32::round of num/den (den > 0): nearest integer, halves away from zero.
Round(num, den) ==
    LET q == (2 * Abs(num) + den) \div (2 * den)
    IN  IF num < 0 THEN -q ELSE q

\* Mutant: the cell is found by truncation.
world_to_grid_Truncate(world_position, g) ==
    <<(world_position[1] * g[1]) \div 100,
      (world_position[2] * g[2]) \div 100,
      (world_position[3] * g[3]) \div 100>>

world_to_grid(world_position, g) ==
    <<Round(world_position[1] * g[1], 100),
      Round(world_position[2] * g[2], 100),
      Round(world_position[3] * g[3], 100)>>

\* grid_position / granularity, in hundredths (exact for granularity 1 and 2).
grid_to_world(grid_position, g) ==
    <<(grid_position[1] * 100) \div g[1],
      (grid_position[2] * 100) \div g[2],
      (grid_position[3] * 100) \div g[3]>>

DistanceSquared(a, b) ==
    (a[1] - b[1]) * (a[1] - b[1]) + (a[2] - b[2]) * (a[2] - b[2])
        + (a[3] - b[3]) * (a[3] - b[3])

\* a.metric_distance(&b) < threshold, for a threshold >= 0
CloserThan(a, b, threshold) == DistanceSquared(a, b) < threshold * threshold

\* AxisAlignedBoundingBox::is_contains_point
is_contains_point(box, p) ==
    \A i \in 1..3 : box.min[i] <= p[i] /\ p[i] <= box.max[i]

(***************************************************************************)
(* Visibility                                                              *)
(***************************************************************************)
\* Mutant: a pair whose query is in flight is probed again.
Visibility_needs_occlusion_query_Reprobe(v) ==
    CASE v = Undefined -> TRUE
      [] v = Invisible -> TRUE
      [] v = Visible -> FALSE

Visibility_needs_occlusion_query(v) ==
    CASE v = Undefined -> FALSE
      [] v = Invisible -> TRUE
      [] v = Visible -> FALSE

\* Mutant: a pair whose query is in flight is not rendered.
Visibility_needs_rendering_Strict(v) ==
    CASE v = Visible -> TRUE
      [] v = Undefined -> FALSE
      [] v = Invisible -> FALSE

Visibility_needs_rendering(v) ==
    CASE v = Visible -> TRUE
      [] v = Undefined -> TRUE
      [] v = Invisible -> FALSE

(***************************************************************************)
(* Map helpers (FxHashMap).                                                *)
(***************************************************************************)
EmptyMap == [x \in {} |-> None]

\* map.entry(k).or_insert(v): keeps the value of a key that is present
EntryOrInsert(map, k, v) ==
    IF k \in DOMAIN map THEN map
    ELSE [x \in DOMAIN map \cup {k} |-> IF x = k THEN v ELSE map[x]]

\* cells.entry(grid_position).or_default().entry(node).or_insert(v)
CellEntryOrInsert(cs, gp, node, v) ==
    LET withCell == EntryOrInsert(cs, gp, EmptyMap)
    IN  [withCell EXCEPT ![gp] = EntryOrInsert(withCell[gp], node, v)]

\* The values of the variables of a subsystem that a specification does not
\* exercise.
RegistryUnused == observers = EmptyMap /\ graph = EmptyMap

SwapUnused == data = None /\ data_update = None

DrawUnused ==
    /\ tiles = EmptyMap
    /\ tiles_update = EmptyMap
    /\ trans_update = EmptyMap
    /\ brush = None

TilesUnused == SwapUnused /\ DrawUnused

ConvertUnused == set_update = EmptyMap /\ tile_set = EmptyMap

ColliderUnused == collider_node = None

SceneUnused == ConvertUnused /\ ColliderUnused

(***************************************************************************)
(* Read-only methods.                                                      *)
(***************************************************************************)
visibility_info(cs, g, observer_position, node) ==
    LET grid_position == world_to_grid(observer_position, g)
    IN  IF grid_position \in DOMAIN cs /\ node \in DOMAIN cs[grid_position]
        THEN cs[grid_position][node]
        ELSE None

needs_occlusion_query(cs, g, observer_position, node) ==
    LET visibility == visibility_info(cs, g, observer_position, node)
    IN  IF visibility = None THEN TRUE
        ELSE Visibility_needs_occlusion_query(visibility)

is_visible(cs, g, observer_position, node) ==
    LET info == visibility_info(cs, g, observer_position, node)
    IN  IF info = None THEN FALSE
        ELSE Visibility_needs_rendering(info)


(***************************************************************************)
(* Mutating methods, as functions from the cache's fields and the call's   *)
(* inputs to the new fields and the returned value.                        *)
(*   node_ref : what graph.try_get(node) yields (NoNode or a bounding box) *)
(*   alloc_ok : whether Query::new succeeds                                *)
(*   draw_ok  : whether frame_buffer.draw succeeds                         *)
(* A pending query is [observer_position, node, ended]; `ended` is the     *)
(* state of its GPU query object (Query::end has been called on it).       *)
(***************************************************************************)
PendingQuery(observer_position, node) ==
    [observer_position |-> observer_position, node |-> node, ended |-> FALSE]

Effect(cs, pq, ret, panic) ==
    [cells |-> cs, pending_queries |-> pq, ret |-> ret, aborted |-> panic]

\* Mutant: the pair's state is overwritten (insert) instead of kept (or_insert).
begin_conditional_query_Insert(cs, pq, g, observer_position, node, node_ref, alloc_ok) ==
    IF node_ref = NoNode
    THEN Effect(cs, pq, "Ok(false)", FALSE)
    ELSE
        LET grid_position == world_to_grid(observer_position, g)
            withCell == EntryOrInsert(cs, grid_position, EmptyMap)
            Insert(v) == [withCell EXCEPT ![grid_position] =
                            [x \in DOMAIN @ \cup {node} |->
                                IF x = node THEN v ELSE @[x]]]
        IN  IF is_contains_point(node_ref, observer_position)
            THEN Effect(Insert(Visible), pq, "Ok(false)", FALSE)
            ELSE IF ~alloc_ok
            THEN Effect(withCell, pq, "Err", FALSE)
            ELSE Effect(Insert(Undefined),
                        Append(pq, PendingQuery(observer_position, node)),
                        "Ok(true)", FALSE)

\* Mutant: the cell of the observer is created before the node is looked up.
begin_conditional_query_CellFirst(cs, pq, g, observer_position, node, node_ref, alloc_ok) ==
    LET grid_position == world_to_grid(observer_position, g)
        withCell == EntryOrInsert(cs, grid_position, EmptyMap)
    IN  IF node_ref = NoNode
        THEN Effect(withCell, pq, "Ok(false)", FALSE)
        ELSE IF is_contains_point(node_ref, observer_position)
        THEN Effect(CellEntryOrInsert(withCell, grid_position, node, Visible),
                    pq, "Ok(false)", FALSE)
        ELSE IF ~alloc_ok
        THEN Effect(withCell, pq, "Err", FALSE)
        ELSE Effect(CellEntryOrInsert(withCell, grid_position, node, Undefined),
                    Append(pq, PendingQuery(observer_position, node)),
                    "Ok(true)", FALSE)

\* Mutant: the pair is entered in the cell before the query is allocated.
begin_conditional_query_InsertFirst(cs, pq, g, observer_position, node, node_ref, alloc_ok) ==
    IF node_ref = NoNode
    THEN Effect(cs, pq, "Ok(false)", FALSE)
    ELSE
        LET grid_position == world_to_grid(observer_position, g)
            withCell == EntryOrInsert(cs, grid_position, EmptyMap)
            inside == is_contains_point(node_ref, observer_position)
            entered == CellEntryOrInsert(withCell, grid_position, node,
                                         IF inside THEN Visible ELSE Undefined)
        IN  IF inside
            THEN Effect(entered, pq, "Ok(false)", FALSE)
            ELSE IF ~alloc_ok
            THEN Effect(entered, pq, "Err", FALSE)
            ELSE Effect(entered,
                        Append(pq, PendingQuery(observer_position, node)),
                        "Ok(true)", FALSE)

begin_conditional_query(cs, pq, g, observer_position, node, node_ref, alloc_ok) ==
    IF node_ref = NoNode
    THEN Effect(cs, pq, "Ok(false)", FALSE)
    ELSE
        LET grid_position == world_to_grid(observer_position, g)
            withCell == EntryOrInsert(cs, grid_position, EmptyMap)
        IN  IF is_contains_point(node_ref, observer_position)
            THEN Effect(CellEntryOrInsert(withCell, grid_position, node, Visible),
                        pq, "Ok(false)", FALSE)
            ELSE IF ~alloc_ok
            THEN Effect(withCell, pq, "Err", FALSE)
            ELSE Effect(CellEntryOrInsert(withCell, grid_position, node, Undefined),
                        Append(pq, PendingQuery(observer_position, node)),
                        "Ok(true)", FALSE)

begin_non_conditional_query(cs, pq, g, observer_position, node, alloc_ok) ==
    IF ~alloc_ok
    THEN Effect(cs, pq, "Err", FALSE)
    ELSE Effect(CellEntryOrInsert(cs, world_to_grid(observer_position, g), node,
                                  Undefined),
                Append(pq, PendingQuery(observer_position, node)),
                "Ok(())", FALSE)

end_query(cs, pq) ==
    IF pq = <<>>
    THEN Effect(cs, pq, "panic", TRUE)
    ELSE Effect(cs, [pq EXCEPT ![Len(pq)].ended = TRUE], "()", FALSE)

\* Mutant: the result of the query always overwrites the visibility.
Resolve_Overwrite(visibility, query_result) ==
    IF query_result THEN Visible ELSE Invisible

\* The match of update on the pair's visibility and the query's result.
Resolve(visibility, query_result) ==
    CASE visibility = Undefined ->
            IF query_result THEN Visible ELSE Invisible
      [] visibility = Invisible ->
            IF query_result THEN Visible ELSE Invisible
      [] visibility = Visible -> Visible

\* Query::try_get_result for each pending query of one update call: "none"
\* (not ready), "pass" or "fail" (AnySamplesPassed(true / false)).  A query
\* that has not been ended has no result.
Results == {"none", "pass", "fail"}
PossibleResults(pq) ==
    {r \in [1..Len(pq) -> Results] :
        \A i \in 1..Len(pq) : ~pq[i].ended => r[i] = "none"}

\* The completed queries of one update call, in polling order: the cell and
\* node of each and whether any sample passed.
Completed(pq, g, results) ==
    LET ready == SelectSeq([i \in 1..Len(pq) |-> i],
                           LAMBDA i : results[i] # "none")
    IN  [k \in 1..Len(ready) |->
            [cell |-> world_to_grid(pq[ready[k]].observer_position, g),
             node |-> pq[ready[k]].node,
             passed |-> results[ready[k]] = "pass"]]

RECURSIVE RetainPending_DropPolled(_, _, _, _, _, _)
\* Mutant: a polled query leaves the vector whether or not it had a result.
RetainPending_DropPolled(cs, pq, g, results, i, kept) ==
    IF i > Len(pq)
    THEN Effect(cs, kept, "()", FALSE)
    ELSE IF results[i] = "none"
    THEN RetainPending_DropPolled(cs, pq, g, results, i + 1, kept)
    ELSE
        LET grid_position == world_to_grid(pq[i].observer_position, g)
        IN  IF grid_position \notin DOMAIN cs
               \/ pq[i].node \notin DOMAIN cs[grid_position]
            THEN Effect(cs, kept \o SubSeq(pq, i, Len(pq)), "panic", TRUE)
            ELSE RetainPending_DropPolled(
                    [cs EXCEPT ![grid_position][pq[i].node] =
                        Resolve(@, results[i] = "pass")],
                    pq, g, results, i + 1, kept)

\* retain_mut over the pending queries from index i on; `kept` are the
\* queries retained so far.  A failed expect leaves the query it failed on,
\* and the ones behind it, in the vector.
RECURSIVE RetainPending(_, _, _, _, _, _)
RetainPending(cs, pq, g, results, i, kept) ==
    IF i > Len(pq)
    THEN Effect(cs, kept, "()", FALSE)
    ELSE IF results[i] = "none"
    THEN RetainPending(cs, pq, g, results, i + 1, Append(kept, pq[i]))
    ELSE
        LET grid_position == world_to_grid(pq[i].observer_position, g)
        IN  IF grid_position \notin DOMAIN cs
               \/ pq[i].node \notin DOMAIN cs[grid_position]
            THEN Effect(cs, kept \o SubSeq(pq, i, Len(pq)), "panic", TRUE)
            ELSE RetainPending(
                    [cs EXCEPT ![grid_position][pq[i].node] =
                        Resolve(@, results[i] = "pass")],
                    pq, g, results, i + 1, kept)

\* Mutant: a cell at exactly the threshold distance is kept.
KeepCell_Inclusive(grid_position, g, observer_position, threshold) ==
    DistanceSquared(grid_to_world(grid_position, g), observer_position)
        <= threshold * threshold

\* The closure of cells.retain in update.
KeepCell(grid_position, g, observer_position, threshold) ==
    CloserThan(grid_to_world(grid_position, g), observer_position, threshold)

update(cs, pq, g, threshold, observer_position, results) ==
    LET polled == RetainPending(cs, pq, g, results, 1, <<>>)
    IN  IF polled.aborted THEN polled
        ELSE Effect([c \in {k \in DOMAIN polled.cells :
                                KeepCell(k, g, observer_position, threshold)}
                        |-> polled.cells[c]],
                    polled.pending_queries, "()", FALSE)

run_query(cs, pq, g, observer_position, node, node_ref, alloc_ok, draw_ok) ==
    IF node_ref = NoNode
    THEN Effect(cs, pq, "Ok(default)", FALSE)
    ELSE IF ~needs_occlusion_query(cs, g, observer_position, node)
    THEN Effect(cs, pq, "Ok(default)", FALSE)
    ELSE
        LET begun == begin_conditional_query(cs, pq, g, observer_position, node,
                                             node_ref, alloc_ok)
        IN  IF begun.ret = "Err" THEN begun
            ELSE IF begun.ret = "Ok(false)"
            THEN Effect(begun.cells, begun.pending_queries, "Ok(default)", FALSE)
            ELSE IF ~draw_ok
            THEN Effect(begun.cells, begun.pending_queries, "Err", FALSE)
            ELSE LET ended == end_query(begun.cells, begun.pending_queries)
                 IN  Effect(ended.cells, ended.pending_queries,
                            IF ended.aborted THEN "panic" ELSE "Ok(stats)",
                            ended.aborted)

(***************************************************************************)
(* The state machine: one action per method of ObserverVisibilityCache.    *)
(***************************************************************************)
VisiblePairs(cs) ==
    {<<c, n>> \in (DOMAIN cs) \X Nodes : n \in DOMAIN cs[c] /\ cs[c][n] = Visible}

\* ObserverVisibilityCache::new
Init ==
    /\ cells = EmptyMap
    /\ pending_queries = <<>>
    /\ granularity \in Granularities
    /\ distance_discard_threshold \in Thresholds
    /\ aborted = FALSE
    /\ last = [op |-> "new"]
    /\ seenVisible = {}
    /\ history = FALSE
    /\ RegistryUnused
    /\ SceneUnused
    /\ TilesUnused

\* The same cache, observed through the history of its Visible pairs.
InitHistory ==
    /\ cells = EmptyMap
    /\ pending_queries = <<>>
    /\ granularity \in Granularities
    /\ distance_discard_threshold \in Thresholds
    /\ aborted = FALSE
    /\ last = [op |-> "new"]
    /\ seenVisible = {}
    /\ history = TRUE
    /\ RegistryUnused
    /\ SceneUnused
    /\ TilesUnused

\* With the history kept, only the name of a call is recorded (and what an
\* update polled).
Recorded(call) ==
    IF ~history \/ call.op = "update" THEN call ELSE [op |-> call.op]

Apply(effect, call) ==
    /\ cells' = effect.cells
    /\ pending_queries' = effect.pending_queries
    /\ aborted' = effect.aborted
    /\ last' = Recorded(call)
    /\ seenVisible' = IF history
                      THEN seenVisible \cup VisiblePairs(effect.cells)
                      ELSE seenVisible
    /\ UNCHANGED <<convertVars, collider_node, granularity,
                   distance_discard_threshold, history,
                   registryVars, tileVars>>

\* The call records hold the inputs of the call, what the call returned and,
\* for a call that can change the pair, the pair's visibility_info before it.
Observed(cs, observer_position, node) ==
    visibility_info(cs, granularity, observer_position, node)

NeedsOcclusionQuery(observer_position, node) ==
    /\ ~aborted
    /\ last' = Recorded(
               [op |-> "needs_occlusion_query",
                pos |-> observer_position, node |-> node,
                ret |-> needs_occlusion_query(cells, granularity,
                                              observer_position, node)])
    /\ UNCHANGED <<convertVars, collider_node, cacheVars, aborted, registryVars, tileVars>>

IsVisible(observer_position, node) ==
    /\ ~aborted
    /\ last' = Recorded(
               [op |-> "is_visible",
                pos |-> observer_position, node |-> node,
                ret |-> is_visible(cells, granularity, observer_position, node)])
    /\ UNCHANGED <<convertVars, collider_node, cacheVars, aborted, registryVars, tileVars>>

BeginConditionalQuery(observer_position, node, node_ref, alloc_ok) ==
    /\ ~aborted
    /\ Len(pending_queries) < MaxPending
    /\ \E effect \in {begin_conditional_query(cells, pending_queries, granularity,
                        observer_position, node, node_ref, alloc_ok)} :
           Apply(effect,
                 [op |-> "begin_conditional_query",
                  pos |-> observer_position, node |-> node,
                  in_graph |-> node_ref # NoNode,
                  inside |-> node_ref # NoNode
                             /\ is_contains_point(node_ref, observer_position),
                  alloc_ok |-> alloc_ok,
                  before |-> Observed(cells, observer_position, node),
                  ret |-> effect.ret])

BeginNonConditionalQuery(observer_position, node, alloc_ok) ==
    /\ ~aborted
    /\ Len(pending_queries) < MaxPending
    /\ \E effect \in {begin_non_conditional_query(cells, pending_queries,
                        granularity, observer_position, node, alloc_ok)} :
           Apply(effect,
                 [op |-> "begin_non_conditional_query",
                  pos |-> observer_position, node |-> node,
                  alloc_ok |-> alloc_ok,
                  before |-> Observed(cells, observer_position, node),
                  ret |-> effect.ret])

EndQuery ==
    /\ ~aborted
    /\ \E effect \in {end_query(cells, pending_queries)} :
           Apply(effect,
                 [op |-> "end_query",
                  was_ended |-> pending_queries # <<>>
                                /\ pending_queries[Len(pending_queries)].ended,
                  ret |-> effect.ret])

Update(observer_position, results) ==
    /\ ~aborted
    /\ \E effect \in {update(cells, pending_queries, granularity,
                            distance_discard_threshold, observer_position, results)} :
           Apply(effect,
                 [op |-> "update", pos |-> observer_position,
                  results |-> results,
                  completed |-> Completed(pending_queries, granularity, results),
                  ret |-> effect.ret])

RunQuery(observer_position, node, node_ref, alloc_ok, draw_ok) ==
    /\ ~aborted
    /\ Len(pending_queries) < MaxPending
    /\ \E effect \in {run_query(cells, pending_queries, granularity,
                        observer_position, node, node_ref, alloc_ok, draw_ok)} :
           Apply(effect,
                 [op |-> "run_query",
                  pos |-> observer_position, node |-> node,
                  in_graph |-> node_ref # NoNode,
                  inside |-> node_ref # NoNode
                             /\ is_contains_point(node_ref, observer_position),
                  alloc_ok |-> alloc_ok, draw_ok |-> draw_ok,
                  before |-> Observed(cells, observer_position, node),
                  ret |-> effect.ret])

Next ==
    \/ \E p \in Positions, n \in Nodes : NeedsOcclusionQuery(p, n)
    \/ \E p \in Positions, n \in Nodes : IsVisible(p, n)
    \/ \E p \in Positions, n \in Nodes, r \in NodeRefs, a \in BOOLEAN :
            BeginConditionalQuery(p, n, r, a)
    \/ \E p \in Positions, n \in Nodes, a \in BOOLEAN :
            BeginNonConditionalQuery(p, n, a)
    \/ EndQuery
    \/ \E p \in Positions, r \in PossibleResults(pending_queries) : Update(p, r)
    \/ \E p \in Positions, n \in Nodes, r \in NodeRefs, a \in BOOLEAN,
          d \in BOOLEAN : RunQuery(p, n, r, a, d)

Spec == Init /\ [][Next]_vars

SpecHistory == InitHistory /\ [][Next]_vars


(***************************************************************************)
(* Properties.                                                             *)
(***************************************************************************)
HasPair(cs, c, n) == c \in DOMAIN cs /\ n \in DOMAIN cs[c]

\* The visibility_info of the pair of the last call, in the current state.
LastInfo == visibility_info(cells, granularity, last.pos, last.node)

\* The state a pair is said to take when a query completes on it.
StateMachine(old, passed) ==
    IF old = Visible THEN Visible
    ELSE IF old = Invisible THEN (IF passed THEN Visible ELSE Invisible)
    ELSE (IF passed THEN Visible ELSE Invisible)

\* StateMachine applied for each completed query of the pair, in order.
RECURSIVE AfterCompleted(_, _, _, _, _)
AfterCompleted(old, c, n, completed, k) ==
    IF k > Len(completed) THEN old
    ELSE AfterCompleted(
            IF completed[k].cell = c /\ completed[k].node = n
            THEN StateMachine(old, completed[k].passed) ELSE old,
            c, n, completed, k + 1)

\* C1: when update resolves completed queries, every pair of a cell that
\* stays in the cache has the state the state machine gives from its old
\* state and the results completed on it: Visible stays Visible, Invisible
\* and Undefined become Visible on a positive result and Invisible on a
\* negative one.
C1_ResolvedByStateMachine ==
    [][(last'.op = "update" /\ ~aborted') =>
        \A c \in DOMAIN cells' : \A n \in DOMAIN cells'[c] :
            /\ HasPair(cells, c, n)
            /\ cells'[c][n] = AfterCompleted(cells[c][n], c, n,
                                             last'.completed, 1)]_vars

\* C1 witness: an update completed a negative query on a pair that is
\* Visible afterwards, and a positive one on some pair.
C1_Witness ==
    /\ last.op = "update"
    /\ ~aborted
    /\ \E k \in 1..Len(last.completed) :
            /\ ~last.completed[k].passed
            /\ HasPair(cells, last.completed[k].cell, last.completed[k].node)
            /\ cells[last.completed[k].cell][last.completed[k].node] = Visible
            /\ \A j \in 1..Len(last.completed) : j # k =>
                    last.completed[j].cell # last.completed[k].cell

\* C2 (as claimed): a pair that has once been Visible is never afterwards
\* Invisible or Undefined in its cell.
C2_NeverDowngraded ==
    \A pair \in seenVisible :
        HasPair(cells, pair[1], pair[2]) => cells[pair[1]][pair[2]] = Visible

\* C2 (amended): a Visible pair stays Visible in every step that keeps its
\* cell, and its cell is removed only by an update whose observer position
\* is not closer than the threshold to the cell's centre.
C2_VisibleUntilEvicted ==
    [][\A c \in DOMAIN cells : \A n \in DOMAIN cells[c] :
        cells[c][n] = Visible =>
            \/ HasPair(cells', c, n) /\ cells'[c][n] = Visible
            \/ /\ c \notin DOMAIN cells'
               /\ last'.op = "update"
               /\ ~CloserThan(grid_to_world(c, granularity), last'.pos,
                              distance_discard_threshold)]_vars

\* C2 witness: a pair seen Visible earlier is still Visible after an update
\* completed a negative query on it.
C2_Witness ==
    /\ history
    /\ last.op = "update"
    /\ \E k \in 1..Len(last.completed) :
            /\ ~last.completed[k].passed
            /\ <<last.completed[k].cell, last.completed[k].node>> \in seenVisible
            /\ HasPair(cells, last.completed[k].cell, last.completed[k].node)
            /\ cells[last.completed[k].cell][last.completed[k].node] = Visible

\* C3: needs_occlusion_query(position, node) is true exactly when the pair
\* has no entry in the cell of the position or its state is Invisible.
C3_NeedsOcclusionQuery ==
    /\ \A p \in Positions, n \in Nodes :
        needs_occlusion_query(cells, granularity, p, n) =
            LET c == world_to_grid(p, granularity)
            IN  ~HasPair(cells, c, n) \/ cells[c][n] = Invisible
    /\ last.op = "needs_occlusion_query" =>
            last.ret = (LastInfo \in {None, Invisible})

\* C3 witness: the method was called on an Invisible pair and returned true.
C3_Witness ==
    /\ last.op = "needs_occlusion_query"
    /\ LastInfo = Invisible
    /\ last.ret = TRUE

\* C4 (as claimed): is_visible is true for a Visible or Undefined pair and
\* false only for a pair whose state is Invisible.
C4_FalseOnlyForInvisible ==
    last.op = "is_visible" =>
        /\ LastInfo \in {Visible, Undefined} => last.ret = TRUE
        /\ last.ret = FALSE => LastInfo = Invisible

\* C4 (amended): is_visible is true exactly when the pair's state is Visible
\* or Undefined; it is false for an Invisible pair and for a pair that has
\* no entry in the cell of the position.
C4_IsVisible ==
    /\ \A p \in Positions, n \in Nodes :
        is_visible(cells, granularity, p, n) =
            LET c == world_to_grid(p, granularity)
            IN  HasPair(cells, c, n) /\ cells[c][n] \in {Visible, Undefined}
    /\ last.op = "is_visible" =>
            last.ret = (LastInfo \in {Visible, Undefined})

\* C4 witness: is_visible was called for a pair without an entry, in a
\* cache that holds other entries, and returned false.
C4_Witness ==
    /\ last.op = "is_visible"
    /\ LastInfo = None
    /\ last.ret = FALSE
    /\ cells # EmptyMap

\* C5 (as claimed): with the observer inside the node's bounding box,
\* begin_conditional_query adds no pending query, returns false, and leaves
\* the pair Visible whatever its state was before.
C5_InsideBoxIsVisible ==
    [][(last'.op = "begin_conditional_query" /\ last'.inside) =>
            /\ pending_queries' = pending_queries
            /\ last'.ret = "Ok(false)"
            /\ visibility_info(cells', granularity, last'.pos, last'.node)
                    = Visible]_vars

\* C6 (as claimed): with the node in the graph, the observer outside its
\* bounding box and the query allocated, begin_conditional_query appends one
\* pending query for (position, node), returns true, and leaves the pair
\* Undefined.
C6_OutsideBoxIsUndefined ==
    [][(/\ last'.op = "begin_conditional_query"
        /\ last'.in_graph /\ ~last'.inside /\ last'.alloc_ok) =>
            /\ pending_queries' =
                    Append(pending_queries, PendingQuery(last'.pos, last'.node))
            /\ last'.ret = "Ok(true)"
            /\ visibility_info(cells', granularity, last'.pos, last'.node)
                    = Undefined]_vars

\* C6 (amended): in that case begin_conditional_query appends one pending
\* query for (position, node) and returns true; the pair becomes Undefined
\* if it had no entry and keeps its state otherwise.  run_query issues the
\* query for a pair without entry or Invisible, ends it when the draw
\* succeeds, and an Invisible pair stays Invisible.
C6_OutsideBoxKeepsState ==
    [][(/\ last'.op \in {"begin_conditional_query", "run_query"}
        /\ last'.in_graph /\ ~last'.inside /\ last'.alloc_ok
        /\ last'.op = "run_query" => last'.before \in {None, Invisible}) =>
            LET before == visibility_info(cells, granularity, last'.pos,
                                          last'.node)
                after == visibility_info(cells', granularity, last'.pos,
                                         last'.node)
                query == PendingQuery(last'.pos, last'.node)
            IN  /\ last'.before = before
                /\ after = IF before = None THEN Undefined ELSE before
                /\ last'.op = "begin_conditional_query" =>
                        /\ pending_queries' = Append(pending_queries, query)
                        /\ last'.ret = "Ok(true)"
                /\ last'.op = "run_query" =>
                        /\ pending_queries' =
                                Append(pending_queries,
                                       [query EXCEPT !.ended = last'.draw_ok])
                        /\ last'.ret = IF last'.draw_ok THEN "Ok(stats)"
                                       ELSE "Err"]_vars

\* C6 witness: run_query issued and ended a query for an Invisible pair,
\* which is still Invisible.
C6_Witness ==
    /\ last.op = "run_query"
    /\ last.ret = "Ok(stats)"
    /\ last.before = Invisible
    /\ LastInfo = Invisible
    /\ pending_queries # <<>>
    /\ pending_queries[Len(pending_queries)].ended

\* C7 (as claimed): end_query aborts when no query is pending and when the
\* most recently begun query has already been ended; otherwise it ends that
\* query.
C7_MismatchIsFatal ==
    [][last'.op = "end_query" =>
        IF pending_queries = <<>> \/ pending_queries[Len(pending_queries)].ended
        THEN aborted'
        ELSE /\ ~aborted'
             /\ pending_queries' =
                    [pending_queries EXCEPT ![Len(pending_queries)].ended = TRUE]
             /\ cells' = cells]_vars

\* The pending queries an update is said to keep: those not ready, in order.
NotReady(pq, results) ==
    LET idx == SelectSeq([i \in 1..Len(pq) |-> i], LAMBDA i : results[i] = "none")
    IN  [k \in 1..Len(idx) |-> pq[idx[k]]]

\* What update is said to do with the pending queries and the pairs.
PolledInOrder(p, results) ==
    /\ ~aborted'
    /\ pending_queries' = NotReady(pending_queries, results)
    /\ \A c \in DOMAIN cells' : \A n \in DOMAIN cells'[c] :
            /\ HasPair(cells, c, n)
            /\ cells'[c][n] =
                    AfterCompleted(cells[c][n], c, n,
                        Completed(pending_queries, granularity, results), 1)

\* C8 (as claimed): update polls every pending query once, in issuance
\* order: a query that reports a result is applied to its pair once and
\* removed, a query that is not ready is kept in order and its pair is not
\* touched.
C8_PollsEveryQuery ==
    [][last'.op = "update" => PolledInOrder(last'.pos, last'.results)]_vars

\* C8, for the updates that return: the same statement holds whenever no
\* expect fails.
C8_PollsEveryQueryUnlessAborted ==
    [][(last'.op = "update" /\ ~aborted') =>
            PolledInOrder(last'.pos, last'.results)]_vars

\* C9: after update(observer_position) returns, the cells are exactly the
\* cells that were present before and whose centre (grid position divided by
\* granularity) is at distance strictly less than the threshold from
\* observer_position; no cell at the threshold or farther remains.
C9_Eviction ==
    [][(last'.op = "update" /\ ~aborted') =>
            DOMAIN cells' =
                {c \in DOMAIN cells :
                    DistanceSquared(grid_to_world(c, granularity), last'.pos)
                        < distance_discard_threshold * distance_discard_threshold}
       ]_vars

\* C9 witness: an update returned, evicted the cell of a pending query and
\* kept another cell.
C9_Witness ==
    /\ last.op = "update"
    /\ ~aborted
    /\ cells # EmptyMap
    /\ \E i \in 1..Len(pending_queries) :
            world_to_grid(pending_queries[i].observer_position, granularity)
                \notin DOMAIN cells

\* C10: begin_conditional_query and run_query with a node that is not in the
\* graph return Ok(false) / empty statistics and change neither the cells,
\* nor any pair, nor the pending queries.
C10_AbsentNodeIsNoOp ==
    [][(last'.op \in {"begin_conditional_query", "run_query"}
            /\ ~last'.in_graph) =>
        /\ last'.ret = IF last'.op = "run_query" THEN "Ok(default)"
                       ELSE "Ok(false)"
        /\ UNCHANGED <<cells, pending_queries, aborted>>]_vars

\* C10 witness: begin_conditional_query returned Ok(false) for a node that
\* is not in the graph, at a position whose cell does not exist, while a
\* query is pending.
C10_Witness ==
    /\ last.op = "begin_conditional_query"
    /\ ~last.in_graph
    /\ last.ret = "Ok(false)"
    /\ last.before = None
    /\ pending_queries # <<>>
    /\ \E p \in Positions : world_to_grid(p, granularity) \notin DOMAIN cells


(***************************************************************************)
(* VisibilityCache: the registry of one ObserverVisibilityCache per        *)
(* observer.  The scene graph is a collaborator: `graph` maps each         *)
(* observer handle to NoNode or to the node's global position.  Handles    *)
(* are generational, so a handle that left the graph never comes back.     *)
(***************************************************************************)
MaxObserverPending == 1

Observers == {"camera", "light"}

\* Global positions of the observers (hundredths of a unit).
GlobalPositions == {<<0, 0, 0>>, <<0, 20000, 0>>}

\* The observers that the scene moves; the others stay where they are.
Movable == {"camera"}

GraphNode(p) == [global_position |-> p]

\* ObserverVisibilityCache::new(Vector3::repeat(2), 100.0)
RegistryGranularity == <<2, 2, 2>>
RegistryThreshold == 10000

ObserverData(position, cs, pq) ==
    [position |-> position, cells |-> cs, pending_queries |-> pq]

\* Mutant: every call installs a fresh cache for the observer.
get_or_register_Insert(obs, g, observer) ==
    IF g[observer] = NoNode
    THEN [observers |-> obs, aborted |-> observer \notin DOMAIN obs]
    ELSE [observers |->
            [o \in DOMAIN obs \cup {observer} |->
                IF o = observer
                THEN ObserverData(g[observer].global_position, EmptyMap, <<>>)
                ELSE obs[o]],
          aborted |-> FALSE]

\* entry(observer).or_insert_with(..): the closure runs for a vacant entry
\* only, and graph[observer] panics for a handle that is not in the graph.
get_or_register(obs, g, observer) ==
    IF observer \in DOMAIN obs
    THEN [observers |-> obs, aborted |-> FALSE]
    ELSE IF g[observer] = NoNode
    THEN [observers |-> obs, aborted |-> TRUE]
    ELSE [observers |->
            EntryOrInsert(obs, observer,
                ObserverData(g[observer].global_position, EmptyMap, <<>>)),
          aborted |-> FALSE]

\* Mutant: the cache is updated with the position stored by the last update.
UpdatedObserver_StalePosition(d, position, results) ==
    LET updated == update(d.cells, d.pending_queries, RegistryGranularity,
                          RegistryThreshold, d.position, results)
    IN  [data |-> ObserverData(position, updated.cells, updated.pending_queries),
         aborted |-> updated.aborted]

\* The body of the closure of observers.retain for an observer in the graph.
UpdatedObserver(d, position, results) ==
    LET updated == update(d.cells, d.pending_queries, RegistryGranularity,
                          RegistryThreshold, position, results)
    IN  [data |-> ObserverData(position, updated.cells, updated.pending_queries),
         aborted |-> updated.aborted]

\* The outcomes of VisibilityCache::update.  The hash map is visited in an
\* arbitrary order: when the update of a cache panics, any of the other
\* entries may or may not have been visited before.
VisibilityCache_update(obs, g, results) ==
    LET alive == {o \in DOMAIN obs : g[o] # NoNode}
        visit(o) == UpdatedObserver(obs[o], g[o].global_position, results[o])
        failing == {o \in alive : visit(o).aborted}
        after(done, failed) ==
            [o \in {x \in DOMAIN obs : x \notin done \/ x \in alive} |->
                IF o \in done \cup failed THEN visit(o).data ELSE obs[o]]
    IN  IF failing = {}
        THEN {[observers |-> after(DOMAIN obs, {}), aborted |-> FALSE]}
        ELSE {[observers |-> after(done, {f}), aborted |-> TRUE] :
                f \in failing, done \in SUBSET (DOMAIN obs \ failing)}

\* Query::try_get_result for the pending queries of every registered cache.
RegistryResults(obs) ==
    {r \in [DOMAIN obs ->
                UNION {PossibleResults(obs[o].pending_queries) : o \in DOMAIN obs}] :
        \A o \in DOMAIN obs : r[o] \in PossibleResults(obs[o].pending_queries)}

CacheUnused ==
    /\ cells = EmptyMap
    /\ pending_queries = <<>>
    /\ granularity = RegistryGranularity
    /\ distance_discard_threshold = RegistryThreshold
    /\ seenVisible = {}
    /\ history = FALSE

\* VisibilityCache::default, with every observer in the graph.
InitRegistry ==
    /\ observers = EmptyMap
    /\ graph = [o \in Observers |-> GraphNode(<<0, 0, 0>>)]
    /\ aborted = FALSE
    /\ last = [op |-> "default"]
    /\ CacheUnused
    /\ SceneUnused
    /\ TilesUnused

GetOrRegister(observer) ==
    /\ ~aborted
    /\ \E effect \in {get_or_register(observers, graph, observer)} :
        /\ observers' = effect.observers
        /\ aborted' = effect.aborted
        /\ last' = [op |-> "get_or_register", observer |-> observer,
                    in_graph |-> graph[observer] # NoNode,
                    registered |-> observer \in DOMAIN observers]
    /\ UNCHANGED <<convertVars, collider_node, graph, cacheVars, tileVars>>

\* A caller that renders from an observer of the graph: it takes the
\* observer's cache and runs one non-conditional query from the observer's
\* global position.
QueryThroughRegistry(observer, node) ==
    /\ ~aborted
    /\ graph[observer] # NoNode
    /\ \E registered \in {get_or_register(observers, graph, observer)} :
        LET cache == registered.observers[observer]
            begun == begin_non_conditional_query(cache.cells,
                        cache.pending_queries, RegistryGranularity,
                        graph[observer].global_position, node, TRUE)
            ended == end_query(begun.cells, begun.pending_queries)
        IN  /\ Len(cache.pending_queries) < MaxObserverPending
            /\ observers' = [registered.observers EXCEPT ![observer] =
                    ObserverData(@.position, ended.cells, ended.pending_queries)]
    /\ last' = [op |-> "query", observer |-> observer]
    /\ UNCHANGED <<convertVars, collider_node, graph, aborted, cacheVars, tileVars>>

RegistryUpdate(results) ==
    /\ ~aborted
    /\ \E effect \in VisibilityCache_update(observers, graph, results) :
        /\ observers' = effect.observers
        /\ aborted' = effect.aborted
        /\ last' = [op |-> "VisibilityCache::update", results |-> results,
                    dropped |-> DOMAIN observers \ DOMAIN effect.observers,
                    moved |-> {o \in DOMAIN effect.observers :
                                effect.observers[o].position # observers[o].position},
                    evicted |-> {o \in DOMAIN effect.observers :
                                  DOMAIN effect.observers[o].cells
                                      # DOMAIN observers[o].cells}]
    /\ UNCHANGED <<convertVars, collider_node, graph, cacheVars, tileVars>>

\* The scene moves an observer.
MoveObserver(observer, p) ==
    /\ ~aborted
    /\ graph[observer] # NoNode
    /\ graph[observer].global_position # p
    /\ graph' = [graph EXCEPT ![observer] = GraphNode(p)]
    /\ last' = [op |-> "graph"]
    /\ UNCHANGED <<convertVars, collider_node, observers, aborted, cacheVars, tileVars>>

\* The scene removes an observer.
RemoveObserver(observer) ==
    /\ ~aborted
    /\ graph[observer] # NoNode
    /\ graph' = [graph EXCEPT ![observer] = NoNode]
    /\ last' = [op |-> "graph"]
    /\ UNCHANGED <<convertVars, collider_node, observers, aborted, cacheVars, tileVars>>

NextRegistry ==
    \/ \E o \in Observers : GetOrRegister(o)
    \/ \E o \in Observers, n \in Nodes : QueryThroughRegistry(o, n)
    \/ \E r \in RegistryResults(observers) : RegistryUpdate(r)
    \/ \E o \in Movable, p \in GlobalPositions : MoveObserver(o, p)
    \/ \E o \in Observers : RemoveObserver(o)

SpecRegistry == InitRegistry /\ [][NextRegistry]_vars

\* C11: get_or_register called with an observer that is absent from the scene
\* graph does not abort.
C11_AbsentObserverIsNotFatal ==
    last.op = "get_or_register" /\ ~last.in_graph => ~aborted

\* C12: get_or_register creates an empty cache, holding the observer's global
\* position, only when the observer is in the graph and has no cache yet; a
\* later call returns the observer's cache as it is; no call changes the
\* cache of another observer.
C12_GetOrRegister ==
    [][last'.op = "get_or_register" =>
        LET o == last'.observer
        IN  /\ \A x \in DOMAIN observers :
                    x \in DOMAIN observers' /\ observers'[x] = observers[x]
            /\ IF aborted'
               THEN observers' = observers
               ELSE /\ DOMAIN observers' = DOMAIN observers \cup {o}
                    /\ o \notin DOMAIN observers =>
                        /\ graph[o] # NoNode
                        /\ observers'[o] =
                            ObserverData(graph[o].global_position, EmptyMap, <<>>)
    ]_vars

\* A later call for an observer whose cache holds a cell and a pending query,
\* next to the cache of another observer that holds some too.
C12_Witness ==
    /\ last.op = "get_or_register"
    /\ last.registered
    /\ ~aborted
    /\ \A o \in Observers :
        /\ o \in DOMAIN observers
        /\ observers[o].cells # EmptyMap
        /\ observers[o].pending_queries # <<>>

\* C13: after VisibilityCache::update the registry holds exactly the
\* registered observers that are still in the graph, each with its current
\* global position, and each cache is the result of its own update at that
\* position.
C13_RegistryUpdate ==
    [][last'.op = "VisibilityCache::update" /\ ~aborted' =>
        /\ DOMAIN observers' = {o \in DOMAIN observers : graph[o] # NoNode}
        /\ \A o \in DOMAIN observers' :
            LET updated == update(observers[o].cells,
                                  observers[o].pending_queries,
                                  RegistryGranularity, RegistryThreshold,
                                  graph[o].global_position, last'.results[o])
            IN  /\ observers'[o].position = graph[o].global_position
                /\ observers'[o].cells = updated.cells
                /\ observers'[o].pending_queries = updated.pending_queries
    ]_vars

\* An update that dropped a vanished observer and evicted the cell of an
\* observer that moved.
C13_Witness ==
    /\ last.op = "VisibilityCache::update"
    /\ ~aborted
    /\ last.dropped # {}
    /\ last.moved \cap last.evicted # {}


(***************************************************************************)
(* The grid of one cache: which cell a world position is stored in and     *)
(* looked up from.  One query is stored per run, from any of the           *)
(* positions below, and looked up from all of them.                        *)
(***************************************************************************)
GridPositions ==
    {<<x, 0, 0>> : x \in {-26, -24, 0, 24, 25, 26}}
        \cup {<<0, 26, 0>>, <<24, 0, -74>>}

GridGranularities == {<<2, 2, 2>>, <<1, 1, 1>>}

InitGrid ==
    /\ cells = EmptyMap
    /\ pending_queries = <<>>
    /\ granularity \in GridGranularities
    /\ distance_discard_threshold \in Thresholds
    /\ aborted = FALSE
    /\ last = [op |-> "new"]
    /\ seenVisible = {}
    /\ history = FALSE
    /\ RegistryUnused
    /\ SceneUnused
    /\ TilesUnused

\* begin_non_conditional_query .. end_query from one position, on a new cache.
GridQuery(observer_position, node) ==
    /\ ~aborted
    /\ cells = EmptyMap
    /\ \E begun \in {begin_non_conditional_query(cells, pending_queries,
                        granularity, observer_position, node, TRUE)} :
        \E effect \in {end_query(begun.cells, begun.pending_queries)} :
            Apply(effect, [op |-> "query", pos |-> observer_position,
                           node |-> node, ret |-> effect.ret])

VisibilityInfo(observer_position, node) ==
    /\ ~aborted
    /\ last' = [op |-> "visibility_info",
                pos |-> observer_position, node |-> node,
                cell |-> world_to_grid(observer_position, granularity),
                ret |-> visibility_info(cells, granularity, observer_position,
                                        node)]
    /\ UNCHANGED <<convertVars, collider_node, cacheVars, aborted, registryVars, tileVars>>

NextGrid ==
    \/ \E p \in GridPositions, n \in Nodes : GridQuery(p, n)
    \/ \E r \in PossibleResults(pending_queries) : Update(<<0, 0, 0>>, r)
    \/ \E p \in GridPositions, n \in Nodes : VisibilityInfo(p, n)

SpecGrid == InitGrid /\ [][NextGrid]_vars

\* c is a nearest integer to x * g / 100
Nearest(c, x, g) == 2 * Abs(100 * c - x * g) <= 100

\* C14: world_to_grid rounds coordinate * granularity to the nearest integer
\* on each axis; with granularity (2,2,2) the positions (0,0,0) and (0.24,0,0)
\* are in cell (0,0,0) and (0.26,0,0) is in cell (1,0,0); what a query stored
\* from one position is what visibility_info returns from every position of
\* the same cell, and from no position of another cell.
C14_WorldToGrid ==
    /\ world_to_grid(<<0, 0, 0>>, <<2, 2, 2>>) = <<0, 0, 0>>
    /\ world_to_grid(<<24, 0, 0>>, <<2, 2, 2>>) = <<0, 0, 0>>
    /\ world_to_grid(<<26, 0, 0>>, <<2, 2, 2>>) = <<1, 0, 0>>
    /\ last.op = "visibility_info" =>
        \A i \in 1..3 : Nearest(last.cell[i], last.pos[i], granularity[i])
    /\ last.op = "query" =>
        \A q \in GridPositions :
            LET same == \A i \in 1..3 :
                            Round(q[i] * granularity[i], 100)
                                = Round(last.pos[i] * granularity[i], 100)
                info == visibility_info(cells, granularity, q, last.node)
            IN  IF same THEN info = Undefined ELSE info = None
    /\ last.op = "visibility_info" /\ cells # EmptyMap =>
        LET stored == CHOOSE c \in DOMAIN cells : TRUE
        IN  last.ret = IF last.cell = stored
                       THEN cells[stored][last.node]
                       ELSE None

\* A query resolved as visible, stored from (0,0,0) or (0.24,0,0) in cell
\* (0,0,0), is read from (0.24,0,0).
C14_Witness ==
    /\ last.op = "visibility_info"
    /\ granularity = <<2, 2, 2>>
    /\ last.pos = <<24, 0, 0>>
    /\ last.cell = <<0, 0, 0>>
    /\ last.ret = Visible


(***************************************************************************)
(* TileDataUpdate::swap_with_data (scene/tilemap/update.rs).               *)
(*                                                                         *)
(* An Option is a sequence: <<>> is None and <<v>> is Some(v).  A TileData *)
(* is its color and its two maps from Uuid; a TileDataUpdate is a record   *)
(* tagged with its variant, each variant with its own fields.              *)
(***************************************************************************)
MaxSwaps == 2

Some(v) == <<v>>

Colors == {"white", "red"}
Uuids == {"a", "b"}
Colliders == {"Rectangle"}

\* [i8; 9] values of a nine-slice property.
NineSlices == {<<0, 0, 0, 0, 0, 0, 0, 0, 0>>, <<1, 2, 3, 4, 5, 6, 7, 8, 9>>}

\* [Option<i8>; 9] values of a PropertySlice update.
OptionSlices ==
    {<<<<>>, <<>>, <<>>, <<>>, <<>>, <<>>, <<>>, <<>>, <<>>>>,
     <<<<7>>, <<>>, <<0>>, <<>>, <<-1>>, <<>>, <<7>>, <<>>, <<3>>>>,
     <<<<1>>, <<2>>, <<3>>, <<4>>, <<5>>, <<6>>, <<7>>, <<8>>, <<9>>>>}

I32(v) == [kind |-> "I32", value |-> v]
NineSlice(v) == [kind |-> "NineSlice", value |-> v]

\* TileSetPropertyValue
PropertyValues == {I32(1)} \cup {NineSlice(v) : v \in NineSlices}

MapsTo(keys, values) == UNION {[d -> values] : d \in SUBSET keys}

TileData(color, collider, properties) ==
    [color |-> color, collider |-> collider, properties |-> properties]

TileDatas ==
    {TileData(c, k, p) : c \in Colors, k \in MapsTo(Uuids, Colliders),
                         p \in MapsTo(Uuids, PropertyValues)}

\* The tile data that a MaterialTile or FreeformTile update carries.
CarriedDatas ==
    {TileData("red", EmptyMap, EmptyMap),
     TileData("white", [u \in {"a"} |-> "Rectangle"],
              [u \in {"b"} |-> NineSlice(<<1, 2, 3, 4, 5, 6, 7, 8, 9>>)])}

TileDataUpdates ==
    {[variant |-> "Erase"],
     [variant |-> "TransformSet", source |-> <<>>],
     [variant |-> "Material", material_bounds |-> "bounds"]}
    \cup {[variant |-> "MaterialTile", tile_data |-> d] : d \in CarriedDatas}
    \cup {[variant |-> "FreeformTile", material_bounds |-> "bounds", data |-> d] :
            d \in CarriedDatas}
    \cup {[variant |-> "Color", color |-> c] : c \in Colors}
    \cup {[variant |-> "Collider", uuid |-> u, collider |-> v] :
            u \in Uuids, v \in {<<>>} \cup {Some(c) : c \in Colliders}}
    \cup {[variant |-> "Property", uuid |-> u, property |-> v] :
            u \in Uuids, v \in {<<>>} \cup {Some(x) : x \in PropertyValues}}
    \cup {[variant |-> "PropertySlice", uuid |-> u, slices |-> v] :
            u \in Uuids, v \in OptionSlices}

MapRemove(map, k) == [x \in DOMAIN map \ {k} |-> map[x]]
MapInsert(map, k, v) == [x \in DOMAIN map \cup {k} |-> IF x = k THEN v ELSE map[x]]

\* swap_hash_map_entry(map.entry(k), &mut value): exchanges the entry of the
\* map, which may be absent, with the optional value.
swap_hash_map_entry(map, k, value) ==
    IF k \in DOMAIN map
    THEN IF value = <<>>
         THEN [map |-> MapRemove(map, k), value |-> Some(map[k])]
         ELSE [map |-> MapInsert(map, k, value[1]), value |-> Some(map[k])]
    ELSE IF value = <<>>
         THEN [map |-> map, value |-> value]
         ELSE [map |-> MapInsert(map, k, value[1]), value |-> <<>>]

Swapped(upd, d, panic) == [update |-> upd, data |-> d, aborted |-> panic]

\* Mutant: only Erase is refused.
NoPayload_EraseOnly(upd) == upd.variant = "Erase"

\* The variants whose arm is panic!().
NoPayload(upd) == upd.variant \in {"Erase", "TransformSet", "Material"}

\* Mutant: the update stays a PropertySlice after filling a vacant entry.
swap_property_slice_KeepVariant(upd, d) ==
    IF upd.uuid \in DOMAIN d.properties
    THEN LET e == d.properties[upd.uuid]
             swap(i) == e.kind = "NineSlice" /\ upd.slices[i] # <<>>
         IN  Swapped(
                [upd EXCEPT !.slices =
                    [i \in 1..9 |-> IF swap(i) THEN Some(e.value[i]) ELSE @[i]]],
                IF e.kind = "NineSlice"
                THEN [d EXCEPT !.properties[upd.uuid].value =
                        [i \in 1..9 |-> IF swap(i) THEN upd.slices[i][1] ELSE @[i]]]
                ELSE d,
                FALSE)
    ELSE Swapped(
            upd,
            [d EXCEPT !.properties = MapInsert(@, upd.uuid,
                NineSlice([i \in 1..9 |->
                    IF upd.slices[i] = <<>> THEN 0 ELSE upd.slices[i][1]]))],
            FALSE)

\* The PropertySlice arm of swap_with_data.
swap_property_slice(upd, d) ==
    IF upd.uuid \in DOMAIN d.properties
    THEN LET e == d.properties[upd.uuid]
             swap(i) == e.kind = "NineSlice" /\ upd.slices[i] # <<>>
         IN  Swapped(
                [upd EXCEPT !.slices =
                    [i \in 1..9 |-> IF swap(i) THEN Some(e.value[i]) ELSE @[i]]],
                IF e.kind = "NineSlice"
                THEN [d EXCEPT !.properties[upd.uuid].value =
                        [i \in 1..9 |-> IF swap(i) THEN upd.slices[i][1] ELSE @[i]]]
                ELSE d,
                FALSE)
    ELSE Swapped(
            [variant |-> "Property", uuid |-> upd.uuid, property |-> <<>>],
            [d EXCEPT !.properties = MapInsert(@, upd.uuid,
                NineSlice([i \in 1..9 |->
                    IF upd.slices[i] = <<>> THEN 0 ELSE upd.slices[i][1]]))],
            FALSE)

swap_with_data(upd, d) ==
    IF NoPayload(upd) THEN Swapped(upd, d, TRUE)
    ELSE CASE upd.variant = "MaterialTile" ->
                Swapped([upd EXCEPT !.tile_data = d], upd.tile_data, FALSE)
           [] upd.variant = "FreeformTile" ->
                Swapped([upd EXCEPT !.data = d], upd.data, FALSE)
           [] upd.variant = "Color" ->
                Swapped([upd EXCEPT !.color = d.color],
                        [d EXCEPT !.color = upd.color], FALSE)
           [] upd.variant = "Collider" ->
                LET s == swap_hash_map_entry(d.collider, upd.uuid, upd.collider)
                IN  Swapped([upd EXCEPT !.collider = s.value],
                            [d EXCEPT !.collider = s.map], FALSE)
           [] upd.variant = "Property" ->
                LET s == swap_hash_map_entry(d.properties, upd.uuid, upd.property)
                IN  Swapped([upd EXCEPT !.property = s.value],
                            [d EXCEPT !.properties = s.map], FALSE)
           [] upd.variant = "PropertySlice" -> swap_property_slice(upd, d)
           [] OTHER -> Swapped(upd, d, FALSE)

\* Any tile data and any update; `last` keeps both as they were given.
InitSwap ==
    /\ data \in TileDatas
    /\ data_update \in TileDataUpdates
    /\ aborted = FALSE
    /\ last = [op |-> "new", swaps |-> 0, data |-> data, update |-> data_update]
    /\ CacheUnused
    /\ RegistryUnused
    /\ SceneUnused
    /\ DrawUnused

SwapWithData ==
    /\ ~aborted
    /\ last.swaps < MaxSwaps
    /\ \E swapped \in {swap_with_data(data_update, data)} :
        /\ data' = swapped.data
        /\ data_update' = swapped.update
        /\ aborted' = swapped.aborted
    /\ last' = [last EXCEPT !.op = "swap_with_data", !.swaps = @ + 1]
    /\ UNCHANGED <<convertVars, collider_node, cacheVars, registryVars, tiles,
                   tiles_update, trans_update,
                   brush>>

NextSwap == SwapWithData

SpecSwap == InitSwap /\ [][NextSwap]_vars

\* C15: two calls of swap_with_data with the same update object leave the
\* TileData as it was, for each of the variants MaterialTile, FreeformTile,
\* Color, Collider, Property and PropertySlice.
C15_SwapTwiceRestores ==
    last.swaps = 2 /\ ~aborted /\ ~NoPayload(last.update) => data = last.data

\* A PropertySlice was swapped twice with a tile that does not have the
\* property.
C15_Witness ==
    /\ last.swaps = 2
    /\ ~aborted
    /\ last.update.variant = "PropertySlice"
    /\ last.update.uuid \notin DOMAIN last.data.properties
    /\ \E i \in 1..9 : last.update.slices[i] # <<>>
    /\ data = last.data

\* C17: swap_with_data aborts exactly for the variants Erase, TransformSet
\* and Material, whatever the TileData holds.
C17_AbortsForNoPayload ==
    last.swaps >= 1 =>
        (aborted <=> last.update.variant \in {"Erase", "TransformSet", "Material"})

\* The first call with a TransformSet update aborted.
C17_Witness ==
    /\ last.swaps = 1
    /\ aborted
    /\ last.update.variant = "TransformSet"


(***************************************************************************)
(* Tiles::swap_tiles (scene/tilemap/tile_source.rs).  A Tiles maps grid    *)
(* positions to tile handles; a TilesUpdate maps positions to optional     *)
(* handles, <<>> for a tile to remove.                                     *)
(***************************************************************************)
Handles == {"h1", "h2"}

SwapPositions == {<<0, 0>>, <<1, 0>>, <<0, 1>>}

\* Mutant: the update is applied but does not take the previous values.
swap_tiles_Apply(ts, updates) ==
    [tiles |->
        [p \in (DOMAIN ts \ DOMAIN updates)
                \cup {k \in DOMAIN updates : updates[k] # <<>>} |->
            IF p \in DOMAIN updates THEN updates[p][1] ELSE ts[p]],
     update |-> updates]

\* The loop of swap_tiles over the entries `keys` of the update that are
\* still to visit.
RECURSIVE SwapEntries(_, _, _)
SwapEntries(ts, updates, keys) ==
    IF keys = {}
    THEN [tiles |-> ts, update |-> updates]
    ELSE LET k == CHOOSE x \in keys : TRUE
             s == swap_hash_map_entry(ts, k, updates[k])
         IN  SwapEntries(s.map, [updates EXCEPT ![k] = s.value], keys \ {k})

swap_tiles(ts, updates) == SwapEntries(ts, updates, DOMAIN updates)

InitTiles ==
    /\ tiles \in MapsTo(SwapPositions, Handles)
    /\ tiles_update \in MapsTo(SwapPositions, {<<>>} \cup {Some(h) : h \in Handles})
    /\ trans_update = EmptyMap
    /\ brush = None
    /\ aborted = FALSE
    /\ last = [op |-> "new", swaps |-> 0, tiles |-> tiles, update |-> tiles_update]
    /\ CacheUnused
    /\ RegistryUnused
    /\ SceneUnused
    /\ SwapUnused

SwapTiles ==
    /\ last.swaps < MaxSwaps
    /\ \E swapped \in {swap_tiles(tiles, tiles_update)} :
        /\ tiles' = swapped.tiles
        /\ tiles_update' = swapped.update
    /\ last' = [last EXCEPT !.op = "swap_tiles", !.swaps = @ + 1]
    /\ UNCHANGED <<convertVars, collider_node, cacheVars, registryVars, aborted,
                   data, data_update,
                   trans_update, brush>>

NextTiles == SwapTiles

SpecTiles == InitTiles /\ [][NextTiles]_vars

\* The optional tile of a position.
TileAt(ts, p) == IF p \in DOMAIN ts THEN Some(ts[p]) ELSE <<>>

\* C16: after one swap_tiles every position of the update holds the update's
\* value (no tile where the update held None), the update holds the previous
\* tile of each of its positions, and no other position has changed; after
\* two calls with the same update object the tiles are as they were.
C16_SwapTiles ==
    /\ last.swaps = 1 =>
        /\ DOMAIN tiles_update = DOMAIN last.update
        /\ \A p \in DOMAIN last.update :
            /\ TileAt(tiles, p) = last.update[p]
            /\ tiles_update[p] = TileAt(last.tiles, p)
    /\ last.swaps = 2 => tiles = last.tiles
    /\ \A p \in SwapPositions \ DOMAIN last.update :
            TileAt(tiles, p) = TileAt(last.tiles, p)

\* Two swaps of an update that removed a tile, replaced a tile and added a
\* tile.
C16_Witness ==
    /\ last.swaps = 2
    /\ tiles = last.tiles
    /\ \E p, q, r \in DOMAIN last.update :
        /\ last.update[p] = <<>> /\ p \in DOMAIN last.tiles
        /\ last.update[q] # <<>> /\ q \in DOMAIN last.tiles
            /\ last.update[q][1] # last.tiles[q]
        /\ last.update[r] # <<>> /\ r \notin DOMAIN last.tiles

(***************************************************************************)
(* TransTilesUpdate::flood_fill (scene/tilemap/update.rs).  A              *)
(* TransTilesUpdate maps positions to an optional <<transformation,        *)
(* handle>> pair.  An OptionTileRect is <<>> or <<rect>>, a rect being its *)
(* lowest corner `position` and its `size` in cells.                       *)
(***************************************************************************)
MaxFills == 2

Add2(a, b) == <<a[1] + b[1], a[2] + b[2]>>
Sub2(a, b) == <<a[1] - b[1], a[2] - b[2]>>

Min2(a, b) == IF a < b THEN a ELSE b
Max2(a, b) == IF a < b THEN b ELSE a

\* TileRect::from_points: the rect of the cells between two corners
from_points(a, b) ==
    [position |-> <<Min2(a[1], b[1]), Min2(a[2], b[2])>>,
     size |-> <<Abs(a[1] - b[1]) + 1, Abs(a[2] - b[2]) + 1>>]

left_bottom_corner(rect) == rect.position
right_top_corner(rect) == Add2(rect.position, <<rect.size[1] - 1, rect.size[2] - 1>>)

\* OptionTileRect::push: the rect grows to hold the point
push(bounds, point) ==
    IF bounds = <<>>
    THEN Some(from_points(point, point))
    ELSE LET lo == left_bottom_corner(bounds[1])
             hi == right_top_corner(bounds[1])
         IN  Some(from_points(<<Min2(lo[1], point[1]), Min2(lo[2], point[2])>>,
                              <<Max2(hi[1], point[1]), Max2(hi[2], point[2])>>))

\* OptionTileRect::contains
contains(bounds, point) ==
    /\ bounds # <<>>
    /\ \A i \in 1..2 :
        /\ bounds[1].position[i] <= point[i]
        /\ point[i] < bounds[1].position[i] + bounds[1].size[i]

\* Tiles::bounding_rect, over the keys still to push
RECURSIVE bounding_rect(_, _)
bounding_rect(result, keys) ==
    IF keys = {} THEN result
    ELSE LET k == CHOOSE x \in keys : TRUE
         IN  bounding_rect(push(result, k), keys \ {k})

\* The tile sources: SingleTileSource, Tiles and Stamp.
SingleTileSource(trans, handle) ==
    [kind |-> "Single", transformation |-> trans, handle |-> handle]
TilesSource(ts) == [kind |-> "Tiles", tiles |-> ts]
Stamp(trans, ts) == [kind |-> "Stamp", transformation |-> trans, tiles |-> ts]

transformation(b) == IF b.kind = "Tiles" THEN "identity" ELSE b.transformation

get_at(b, position) ==
    IF b.kind = "Single" THEN Some(b.handle) ELSE TileAt(b.tiles, position)

\* Mutant: the fill also spreads to the diagonal neighbours.
Neighbours_Diagonal(position) ==
    <<Add2(position, <<-1, 0>>), Add2(position, <<1, 0>>),
      Add2(position, <<0, -1>>), Add2(position, <<0, 1>>),
      Add2(position, <<1, 1>>), Add2(position, <<-1, -1>>)>>

Neighbours(position) ==
    <<Add2(position, <<-1, 0>>), Add2(position, <<1, 0>>),
      Add2(position, <<0, -1>>), Add2(position, <<0, 1>>)>>

\* The while loop of flood_fill: `stack` is the work stack, `writes` counts
\* the calls of insert.
RECURSIVE FloodFillLoop(_, _, _, _, _, _, _)
FloodFillLoop(upd, ts, start_point, b, bounds, stack, writes) ==
    IF stack = <<>>
    THEN [update |-> upd, writes |-> writes]
    ELSE
        LET position == stack[Len(stack)]
            rest == SubSeq(stack, 1, Len(stack) - 1)
        IN  IF TileAt(ts, position) = TileAt(ts, start_point)
               /\ position \notin DOMAIN upd
            THEN
                LET h == get_at(b, Sub2(position, start_point))
                    value == IF h = <<>> THEN <<>>
                             ELSE Some(<<transformation(b), h[1]>>)
                IN  FloodFillLoop(
                        MapInsert(upd, position, value), ts, start_point, b,
                        bounds,
                        rest \o SelectSeq(Neighbours(position),
                                          LAMBDA n : contains(bounds, n)),
                        writes + 1)
            ELSE FloodFillLoop(upd, ts, start_point, b, bounds, rest, writes)

\* Mutant: the fill starts over on an empty update and merges what it wrote.
flood_fill_Refill(upd, ts, start_point, b) ==
    LET filled == FloodFillLoop(EmptyMap, ts, start_point, b,
                        push(bounding_rect(<<>>, DOMAIN ts), start_point),
                        <<start_point>>, 0)
    IN  [update |-> [x \in DOMAIN upd \cup DOMAIN filled.update |->
                        IF x \in DOMAIN filled.update
                        THEN filled.update[x] ELSE upd[x]],
         writes |-> filled.writes]

flood_fill(upd, ts, start_point, b) ==
    FloodFillLoop(upd, ts, start_point, b,
                  push(bounding_rect(<<>>, DOMAIN ts), start_point),
                  <<start_point>>, 0)

\* The cells that hold tiles, the seeds and the brushes of the fills.
FillPositions == {<<x, y>> : x \in 0..2, y \in 0..1}
FillSeeds == {<<0, 0>>, <<1, 1>>, <<2, 0>>, <<4, 1>>, <<1, -1>>}
FillBrushes ==
    {SingleTileSource("rotated", "h1"),
     TilesSource([x \in {<<0, 0>>, <<1, 0>>, <<0, -1>>} |->
                    IF x = <<0, 0>> THEN "h2" ELSE "h1"])}

InitFill ==
    /\ tiles \in MapsTo(FillPositions, Handles)
    /\ brush \in FillBrushes
    /\ trans_update = EmptyMap
    /\ tiles_update = EmptyMap
    /\ aborted = FALSE
    /\ last = [op |-> "new", runs |-> 0]
    /\ CacheUnused
    /\ RegistryUnused
    /\ SceneUnused
    /\ SwapUnused

\* flood_fill on the update of this run: any seed first, the same seed again.
FloodFill(start_point) ==
    /\ last.runs < MaxFills
    /\ last.runs > 0 => start_point = last.start
    /\ \E filled \in {flood_fill(trans_update, tiles, start_point, brush)} :
        /\ trans_update' = filled.update
        /\ last' = [op |-> "flood_fill", runs |-> last.runs + 1,
                    start |-> start_point, writes |-> filled.writes,
                    first |-> IF last.runs = 0 THEN filled.update ELSE last.first]
    /\ UNCHANGED <<convertVars, collider_node, cacheVars, registryVars, aborted,
                   data, data_update, tiles,
                   tiles_update, brush>>

\* flood_fill with the seed of the first run on a new, empty update.
FloodFillFresh ==
    /\ last.runs > 0
    /\ last.runs < MaxFills
    /\ \E filled \in {flood_fill(EmptyMap, tiles, last.start, brush)} :
        /\ trans_update' = filled.update
        /\ last' = [last EXCEPT !.op = "flood_fill on a new update",
                                !.runs = @ + 1, !.writes = filled.writes]
    /\ UNCHANGED <<convertVars, collider_node, cacheVars, registryVars, aborted,
                   data, data_update, tiles,
                   tiles_update, brush>>

NextFill ==
    \/ \E p \in FillSeeds : FloodFill(p)
    \/ FloodFillFresh

SpecFill == InitFill /\ [][NextFill]_vars

SetMin(S) == CHOOSE x \in S : \A y \in S : x <= y
SetMax(S) == CHOOSE x \in S : \A y \in S : y <= x

\* The cells of the smallest rectangle that holds the tiles and the seed.
ExtendedBounds(ts, seed) ==
    LET xs == {q[1] : q \in DOMAIN ts \cup {seed}}
        ys == {q[2] : q \in DOMAIN ts \cup {seed}}
    IN  (SetMin(xs)..SetMax(xs)) \X (SetMin(ys)..SetMax(ys))

Adjacent(a, b) == Abs(a[1] - b[1]) + Abs(a[2] - b[2]) = 1

\* The 4-connected component of `reached` within `eligible`.
RECURSIVE Component(_, _)
Component(reached, eligible) ==
    LET more == reached \cup {q \in eligible : \E r \in reached : Adjacent(q, r)}
    IN  IF more = reached THEN reached ELSE Component(more, eligible)

\* C18: flood_fill into an empty update writes exactly the cells of the
\* 4-connected component of the seed among the cells, within the bounding
\* rectangle of the tiles extended to the seed, that hold the same tile as the
\* seed (or no tile, as the seed); cell p receives brush.get_at(p - seed) with
\* the transformation of the brush.
C18_FloodFill ==
    last.runs = 1 =>
        LET seed == last.start
            eligible == {q \in ExtendedBounds(tiles, seed) :
                            TileAt(tiles, q) = TileAt(tiles, seed)}
        IN  /\ DOMAIN trans_update = Component({seed}, eligible)
            /\ \A q \in DOMAIN trans_update :
                LET h == get_at(brush, Sub2(q, seed))
                IN  trans_update[q] =
                        IF h = <<>> THEN <<>>
                        ELSE <<(<<transformation(brush), h[1]>>)>>

\* A fill, from a seed outside the bounding rectangle of the tiles, that
\* wrote several cells, left a cell of the same identity that is cut off
\* from the seed, and erased where the brush has no tile.
C18_Witness ==
    /\ last.runs = 1
    /\ last.start \notin ExtendedBounds(tiles, <<0, 0>>)
    /\ Cardinality(DOMAIN trans_update) > 2
    /\ \E q \in ExtendedBounds(tiles, last.start) \ DOMAIN trans_update :
            TileAt(tiles, q) = TileAt(tiles, last.start)
    /\ \E q, r \in DOMAIN trans_update :
            trans_update[q] = <<>> /\ trans_update[r] # <<>>

\* C19: a second flood_fill with the same tiles, seed and brush on the update
\* of the first run inserts nothing and leaves the update as it is, and on a
\* new empty update it produces the update of the first run.
C19_FloodFillIdempotent ==
    last.runs = 2 =>
        /\ trans_update = last.first
        /\ last.op = "flood_fill" => last.writes = 0

\* The second run, on the update of a first run that wrote several cells.
C19_Witness ==
    /\ last.runs = 2
    /\ last.op = "flood_fill"
    /\ Cardinality(DOMAIN last.first) > 2
    /\ trans_update = last.first

(***************************************************************************)
(* TransTilesUpdate::nine_slice (scene/tilemap/update.rs).  A TileRegion   *)
(* is an `origin` and its optional rect `bounds`.                          *)
(***************************************************************************)
left_top_corner(rect) == <<rect.position[1], rect.position[2] + rect.size[2] - 1>>
right_bottom_corner(rect) == <<rect.position[1] + rect.size[1] - 1, rect.position[2]>>

\* OptionTileRect::deflate: no rect is left when a side would be empty
deflate(bounds, dw, dh) ==
    IF bounds = <<>> THEN <<>>
    ELSE IF bounds[1].size[1] > 2 * dw /\ bounds[1].size[2] > 2 * dh
    THEN Some([position |-> Add2(bounds[1].position, <<dw, dh>>),
               size |-> Sub2(bounds[1].size, <<2 * dw, 2 * dh>>)])
    ELSE <<>>

\* OptionTileRect::iter
RectCells(bounds) ==
    IF bounds = <<>> THEN {}
    ELSE (bounds[1].position[1]..(bounds[1].position[1] + bounds[1].size[1] - 1))
            \X (bounds[1].position[2]..(bounds[1].position[2] + bounds[1].size[2] - 1))

TileRegion(origin, bounds) == [origin |-> origin, bounds |-> bounds]

\* Mutant: the origin is the lowest corner whatever the direction.
from_bounds_and_direction_LowCorner(bounds, direction) ==
    IF bounds = <<>>
    THEN TileRegion(<<0, 0>>, <<>>)
    ELSE TileRegion(left_bottom_corner(bounds[1]), bounds)

from_bounds_and_direction(bounds, direction) ==
    IF bounds = <<>>
    THEN TileRegion(<<0, 0>>, <<>>)
    ELSE TileRegion(
            <<IF direction[1] <= 0 THEN left_bottom_corner(bounds[1])[1]
                                   ELSE right_top_corner(bounds[1])[1],
              IF direction[2] <= 0 THEN left_bottom_corner(bounds[1])[2]
                                   ELSE right_top_corner(bounds[1])[2]>>,
            bounds)

\* region.with_bounds(TileRect::from_points(a + da, b + db).into())
with_bounds(region, a, da, b, db) ==
    TileRegion(region.origin, Some(from_points(Add2(a, da), Add2(b, db))))

\* The % of Rust: the remainder has the sign of the dividend.
Rem(a, b) == IF a >= 0 THEN a % b ELSE -((-a) % b)

\* i32::rem_euclid for a positive rhs
rem_euclid(a, rhs) == a % rhs

\* Mutant: the remainder of % in place of rem_euclid.
repeat_position_Rem(region, position) ==
    IF region.bounds = <<>> THEN <<>>
    ELSE LET rect == region.bounds[1]
             pos == Sub2(Add2(position, region.origin), rect.position)
         IN  Some(Add2(<<Rem(pos[1], rect.size[1]), Rem(pos[2], rect.size[2])>>,
                       rect.position))

\* RepeatTileSource::get_at: the position handed to the wrapped source, if any
repeat_position(region, position) ==
    IF region.bounds = <<>> THEN <<>>
    ELSE LET rect == region.bounds[1]
             pos == Sub2(Add2(position, region.origin), rect.position)
         IN  Some(Add2(<<rem_euclid(pos[1], rect.size[1]),
                         rem_euclid(pos[2], rect.size[2])>>,
                       rect.position))

\* RepeatTileSource::get_at
repeat_get_at(source, region, position) ==
    LET forwarded == repeat_position(region, position)
    IN  IF forwarded = <<>> THEN <<>> ELSE get_at(source, forwarded[1])

\* The closure of nine_slice: rect_fill_inner of the target region from the
\* stamp repeated over the source region.
fill(upd, target_region, source, source_region) ==
    LET tile(t) == repeat_get_at(source, source_region,
                                 Sub2(t, target_region.origin))
        written == {t \in RectCells(target_region.bounds) : tile(t) # <<>>}
    IN  [x \in DOMAIN upd \cup written |->
            IF x \in written
            THEN Some(<<transformation(source), tile(x)[1]>>)
            ELSE upd[x]]

\* Mutant: the corners are left to the fills of the edges.
PlaceCorner_Skip(upd, stamp, corner_position, actual_corner_position) == upd

\* One step of the loop that places the corners.
PlaceCorner(upd, stamp, corner_position, actual_corner_position) ==
    IF corner_position \in DOMAIN stamp.tiles
    THEN MapInsert(upd, actual_corner_position,
                   Some(<<transformation(stamp), stamp.tiles[corner_position]>>))
    ELSE upd

\* Mutant: the edges are filled whatever the size.
LongEnough_Always(size) == TRUE

\* rect.size.x > 2, stamp_rect.size.x > 2 (and the same for y)
LongEnough(size) == size > 2

nine_slice(upd, start, end, stamp) ==
    LET stamp_bounds == bounding_rect(<<>>, DOMAIN stamp.tiles)
    IN  IF stamp_bounds = <<>> THEN upd
        ELSE
        LET stamp_rect == stamp_bounds[1]
            rect == from_points(start, end)
            region == TileRegion(start, Some(rect))
            inner_region == TileRegion(region.origin, deflate(region.bounds, 1, 1))
            stamp_region == from_bounds_and_direction(stamp_bounds, Sub2(start, end))
            inner_stamp_region ==
                TileRegion(stamp_region.origin, deflate(stamp_region.bounds, 1, 1))
            corners ==
                PlaceCorner(
                  PlaceCorner(
                    PlaceCorner(
                      PlaceCorner(upd, stamp, left_top_corner(stamp_rect),
                                  left_top_corner(rect)),
                      stamp, right_top_corner(stamp_rect), right_top_corner(rect)),
                    stamp, right_bottom_corner(stamp_rect), right_bottom_corner(rect)),
                  stamp, left_bottom_corner(stamp_rect), left_bottom_corner(rect))
            top(g, r) == with_bounds(g, left_top_corner(r), <<1, 0>>,
                                     right_top_corner(r), <<-1, 0>>)
            bottom(g, r) == with_bounds(g, left_bottom_corner(r), <<1, 0>>,
                                        right_bottom_corner(r), <<-1, 0>>)
            left(g, r) == with_bounds(g, left_bottom_corner(r), <<0, 1>>,
                                      left_top_corner(r), <<0, -1>>)
            right(g, r) == with_bounds(g, right_bottom_corner(r), <<0, 1>>,
                                       right_top_corner(r), <<0, -1>>)
            horizontal ==
                IF LongEnough(rect.size[1]) /\ LongEnough(stamp_rect.size[1])
                THEN fill(fill(corners, top(region, rect), stamp,
                               top(stamp_region, stamp_rect)),
                          bottom(region, rect), stamp,
                          bottom(stamp_region, stamp_rect))
                ELSE corners
            vertical ==
                IF LongEnough(rect.size[2]) /\ LongEnough(stamp_rect.size[2])
                THEN fill(fill(horizontal, left(region, rect), stamp,
                               left(stamp_region, stamp_rect)),
                          right(region, rect), stamp,
                          right(stamp_region, stamp_rect))
                ELSE horizontal
        IN  fill(vertical, inner_region, stamp, inner_stamp_region)

\* The stamps: nine tiles, nine tiles less a corner and the centre, four
\* tiles, and no tile; the handle of a tile tells its place in the stamp.
StampTiles(positions) ==
    LET xs == {q[1] : q \in positions}
        ys == {q[2] : q \in positions}
        outer(v, vs) == (\A w \in vs : v <= w) \/ (\A u \in vs : u <= v)
    IN  [q \in positions |->
            IF outer(q[1], xs) /\ outer(q[2], ys) THEN "corner"
            ELSE IF outer(q[1], xs) \/ outer(q[2], ys) THEN "edge"
            ELSE "centre"]

\* Tiles that are all different: the handle of a tile names its cell.
PlacedTiles(positions) == [q \in positions |-> ToString(q)]

\* The last stamp is four cells wide and three high, with a different tile in
\* every cell.
Stamps ==
    {Stamp("rotated", StampTiles((-1..1) \X (-1..1))),
     Stamp("identity", StampTiles(((-1..1) \X (-1..1)) \ {<<-1, -1>>, <<0, 0>>})),
     Stamp("identity", StampTiles((-1..0) \X (-1..0))),
     Stamp("identity", EmptyMap),
     Stamp("rotated", PlacedTiles((-1..2) \X (-1..1)))}

\* The two points of the target rectangle, in any order.
SliceStarts == {<<0, 0>>, <<3, 3>>, <<1, 2>>}
SliceEnds == (0..3) \X (0..3)

InitNineSlice ==
    /\ brush \in Stamps
    /\ tiles = EmptyMap
    /\ tiles_update = EmptyMap
    /\ trans_update = EmptyMap
    /\ aborted = FALSE
    /\ last = [op |-> "new"]
    /\ CacheUnused
    /\ RegistryUnused
    /\ SceneUnused
    /\ SwapUnused

\* One nine_slice on a new update.
NineSliceAction(start, end) ==
    /\ last.op = "new"
    /\ trans_update' = nine_slice(trans_update, start, end, brush)
    /\ last' = [op |-> "nine_slice", start |-> start, end |-> end]
    /\ UNCHANGED <<convertVars, collider_node, cacheVars, registryVars, aborted,
                   data, data_update, tiles,
                   tiles_update, brush>>

NextNineSlice == \E start \in SliceStarts, end \in SliceEnds : NineSliceAction(start, end)

SpecNineSlice == InitNineSlice /\ [][NextNineSlice]_vars

\* The target of the last nine_slice: its sides and its cells.
TargetXs == {last.start[1], last.end[1]}
TargetYs == {last.start[2], last.end[2]}
TargetCorners == TargetXs \X TargetYs
TargetLeftRight ==
    {q \in TargetXs \X (SetMin(TargetYs)..SetMax(TargetYs)) : q[2] \notin TargetYs}
TargetTopBottom ==
    {q \in (SetMin(TargetXs)..SetMax(TargetXs)) \X TargetYs : q[1] \notin TargetXs}
Written(kind) ==
    {q \in DOMAIN trans_update : trans_update[q] # <<>> /\ trans_update[q][1][2] = kind}

\* C20: a nine_slice onto a target at most two cells wide writes only corner
\* tiles at the corners and edge tiles on the left and right edges, and onto a
\* target at most two cells high only corner tiles at the corners and edge
\* tiles on the top and bottom edges: no top or bottom edge (resp. left or
\* right edge) and no interior is drawn, and only the corners are written when
\* both hold.
C20_NarrowTarget ==
    last.op = "nine_slice" =>
        /\ SetMax(TargetXs) - SetMin(TargetXs) < 2 =>
            /\ DOMAIN trans_update \subseteq TargetCorners \cup TargetLeftRight
            /\ Written("corner") \subseteq TargetCorners
            /\ Written("edge") \subseteq TargetLeftRight
            /\ Written("centre") = {}
        /\ SetMax(TargetYs) - SetMin(TargetYs) < 2 =>
            /\ DOMAIN trans_update \subseteq TargetCorners \cup TargetTopBottom
            /\ Written("corner") \subseteq TargetCorners
            /\ Written("edge") \subseteq TargetTopBottom
            /\ Written("centre") = {}

\* The stamp of nine tiles on a target two cells wide and four high: the
\* four corners and the four cells of the left and right edges are written.
C20_Witness ==
    /\ last.op = "nine_slice"
    /\ SetMax(TargetXs) - SetMin(TargetXs) = 1
    /\ SetMax(TargetYs) - SetMin(TargetYs) = 3
    /\ Written("corner") = TargetCorners
    /\ Written("edge") = TargetLeftRight
    /\ Cardinality(DOMAIN trans_update) = 8

\* The cells of the stamp on the same sides of its bounding rectangle as the
\* cell q is of the target: the same corner, the same edge less its corners,
\* or the interior.
SameSide(v, vs, w, ws) ==
    /\ (v = SetMin(vs)) = (w = SetMin(ws))
    /\ (v = SetMax(vs)) = (w = SetMax(ws))

StampPart(q) ==
    LET xs == {p[1] : p \in DOMAIN brush.tiles}
        ys == {p[2] : p \in DOMAIN brush.tiles}
    IN  {p \in DOMAIN brush.tiles :
            /\ SameSide(p[1], xs, q[1], TargetXs)
            /\ SameSide(p[2], ys, q[2], TargetYs)}

\* A stamp with a tile in every cell of a bounding rectangle at least three
\* wide and three high.
FullStamp ==
    /\ brush.tiles # EmptyMap
    /\ LET xs == {p[1] : p \in DOMAIN brush.tiles}
           ys == {p[2] : p \in DOMAIN brush.tiles}
       IN  /\ DOMAIN brush.tiles = (SetMin(xs)..SetMax(xs)) \X (SetMin(ys)..SetMax(ys))
           /\ SetMax(xs) - SetMin(xs) >= 2
           /\ SetMax(ys) - SetMin(ys) >= 2

TargetCells ==
    (SetMin(TargetXs)..SetMax(TargetXs)) \X (SetMin(TargetYs)..SetMax(TargetYs))

\* C21: with a stamp that has a tile in every cell of a bounding rectangle at
\* least 3 by 3 and a target at least 3 by 3, nine_slice writes every cell of
\* the target and no other; a corner receives the stamp's corner of the same
\* side, an edge cell a tile of the stamp's same edge (corners excluded), an
\* interior cell a tile of the stamp's interior, all with the stamp's
\* transformation; an empty stamp writes nothing.
C21_NineSlice ==
    last.op = "nine_slice" =>
        /\ brush.tiles = EmptyMap => trans_update = EmptyMap
        /\ (/\ FullStamp
            /\ SetMax(TargetXs) - SetMin(TargetXs) >= 2
            /\ SetMax(TargetYs) - SetMin(TargetYs) >= 2) =>
                /\ DOMAIN trans_update = TargetCells
                /\ \A q \in TargetCells :
                    \E p \in StampPart(q) :
                        trans_update[q] =
                            <<(<<brush.transformation, brush.tiles[p]>>)>>

\* The stamp four wide and three high on a target four wide and four high:
\* sixteen cells are written, and the left top corner of the target holds the
\* left top corner of the stamp.
C21_Witness ==
    /\ last.op = "nine_slice"
    /\ FullStamp
    /\ Cardinality(DOMAIN brush.tiles) = 12
    /\ Cardinality(DOMAIN trans_update) = 16
    /\ trans_update[<<0, 3>>] = <<(<<"rotated", ToString(<<-1, 1>>)>>)>>
    /\ Cardinality({trans_update[q] : q \in DOMAIN trans_update}) = 12

(***************************************************************************)
(* TransTilesUpdate::draw_line and BresenhamLineIter                       *)
(* (scene/tilemap/update.rs).                                              *)
(***************************************************************************)
\* Mutant: the ends are not put in the order of x.
BresenhamLineIter_new_Unordered(start, end) ==
    LET is_steep == Abs(end[2] - start[2]) > Abs(end[1] - start[1])
        x0 == IF is_steep THEN start[2] ELSE start[1]
        y0 == IF is_steep THEN start[1] ELSE start[2]
        x1 == IF is_steep THEN end[2] ELSE end[1]
        y1 == IF is_steep THEN end[1] ELSE end[2]
    IN  [dx |-> x1 - x0, dy |-> Abs(y1 - y0), x |-> x0, y |-> y0,
         error |-> (x1 - x0) \div 2, end_x |-> x1, is_steep |-> is_steep,
         y_step |-> IF y0 < y1 THEN 1 ELSE -1]

BresenhamLineIter_new(start, end) ==
    LET is_steep == Abs(end[2] - start[2]) > Abs(end[1] - start[1])
        \* after the swap of the axes of a steep line
        sx0 == IF is_steep THEN start[2] ELSE start[1]
        sy0 == IF is_steep THEN start[1] ELSE start[2]
        sx1 == IF is_steep THEN end[2] ELSE end[1]
        sy1 == IF is_steep THEN end[1] ELSE end[2]
        \* after the swap of the ends
        x0 == IF sx0 > sx1 THEN sx1 ELSE sx0
        y0 == IF sx0 > sx1 THEN sy1 ELSE sy0
        x1 == IF sx0 > sx1 THEN sx0 ELSE sx1
        y1 == IF sx0 > sx1 THEN sy0 ELSE sy1
        dx == x1 - x0
    IN  [dx |-> dx, dy |-> Abs(y1 - y0), x |-> x0, y |-> y0,
         error |-> dx \div 2, end_x |-> x1, is_steep |-> is_steep,
         y_step |-> IF y0 < y1 THEN 1 ELSE -1]

\* Iterator::next: the item, <<>> at the end, and the iterator after it.
BresenhamLineIter_next(it) ==
    IF it.x > it.end_x
    THEN [ret |-> <<>>, it |-> it]
    ELSE
        LET ret == IF it.is_steep THEN <<it.y, it.x>> ELSE <<it.x, it.y>>
            error == it.error - it.dy
        IN  [ret |-> Some(ret),
             it |-> IF error < 0
                    THEN [it EXCEPT !.x = @ + 1, !.y = @ + it.y_step,
                                    !.error = error + it.dx]
                    ELSE [it EXCEPT !.x = @ + 1, !.error = error]]

\* The for loop of draw_line over the iterator.
RECURSIVE DrawLineLoop(_, _, _, _)
DrawLineLoop(upd, it, from, b) ==
    LET step == BresenhamLineIter_next(it)
    IN  IF step.ret = <<>> THEN upd
        ELSE
            LET position == step.ret[1]
                random_tile == get_at(b, Sub2(position, from))
            IN  DrawLineLoop(
                    IF random_tile = <<>> THEN upd
                    ELSE MapInsert(upd, position,
                                   Some(<<transformation(b), random_tile[1]>>)),
                    step.it, from, b)

draw_line(upd, from, to, b) ==
    DrawLineLoop(upd, BresenhamLineIter_new(from, to), from, b)

\* The ends of the lines and the brushes: a single tile, and tiles with holes.
LineStarts == {<<0, 0>>, <<1, -1>>}
LineEnds == (-3..3) \X (-3..3)
LineBrushes ==
    {SingleTileSource("rotated", "h1"),
     TilesSource([x \in {<<0, 0>>, <<1, 0>>, <<-1, -1>>, <<2, 1>>, <<0, 2>>} |->
                    IF x = <<0, 0>> THEN "h2" ELSE "h1"])}

InitLine ==
    /\ brush \in LineBrushes
    /\ trans_update = EmptyMap
    /\ tiles = EmptyMap
    /\ tiles_update = EmptyMap
    /\ aborted = FALSE
    /\ last = [op |-> "new", lines |-> 0]
    /\ CacheUnused
    /\ RegistryUnused
    /\ SwapUnused
    /\ SceneUnused

\* draw_line on the new update.
DrawLine(from, to) ==
    /\ last.lines = 0
    /\ trans_update' = draw_line(trans_update, from, to, brush)
    /\ last' = [op |-> "draw_line", lines |-> 1, from |-> from, to |-> to]
    /\ UNCHANGED <<convertVars, collider_node, cacheVars, registryVars, aborted,
                   data, data_update, tiles, tiles_update, brush>>

\* The line of the first call drawn from its end to its start, on another
\* new update; `last.first` keeps the update of the first call.
DrawLineBack ==
    /\ last.lines = 1
    /\ trans_update' = draw_line(EmptyMap, last.to, last.from, brush)
    /\ last' = [op |-> "draw_line back", lines |-> 2, from |-> last.to,
                to |-> last.from, first |-> trans_update]
    /\ UNCHANGED <<convertVars, collider_node, cacheVars, registryVars, aborted,
                   data, data_update, tiles, tiles_update, brush>>

NextLine ==
    \/ \E from \in LineStarts, to \in LineEnds : DrawLine(from, to)
    \/ DrawLineBack

SpecLine == InitLine /\ [][NextLine]_vars

\* The axis along which the last line is longer (x when both are equal) and
\* the other one.
MajorAxis == IF Abs(last.to[2] - last.from[2]) > Abs(last.to[1] - last.from[1])
             THEN 2 ELSE 1
MinorAxis == 3 - MajorAxis
Sign(x) == IF x < 0 THEN -1 ELSE IF x > 0 THEN 1 ELSE 0

\* C22: draw_line(from, to) with a single-tile source of handle H writes
\* max(|dx|,|dy|)+1 cells, all with H: one cell for every value of the major
\* coordinate between the two ends, `from` and `to` included, the minor
\* coordinate moving towards that of `to` by at most 1 per step; from (0,0) to
\* (3,1) these are 4 cells; and draw_line(to, from) writes the same cells.
C22_DrawLine ==
    (last.lines > 0 /\ brush.kind = "Single") =>
        LET from == last.from
            to == last.to
            lo == SetMin({from[MajorAxis], to[MajorAxis]})
            hi == SetMax({from[MajorAxis], to[MajorAxis]})
            cell(v) == CHOOSE q \in DOMAIN trans_update : q[MajorAxis] = v
            towards == Sign(to[MinorAxis] - from[MinorAxis])
                        * Sign(to[MajorAxis] - from[MajorAxis])
        IN  /\ Cardinality(DOMAIN trans_update) = hi - lo + 1
            /\ hi - lo = SetMax({Abs(to[1] - from[1]), Abs(to[2] - from[2])})
            /\ \A q \in DOMAIN trans_update :
                    trans_update[q] = <<(<<brush.transformation, brush.handle>>)>>
            /\ \A v \in lo..hi :
                    Cardinality({q \in DOMAIN trans_update : q[MajorAxis] = v}) = 1
            /\ from \in DOMAIN trans_update
            /\ to \in DOMAIN trans_update
            /\ \A v \in lo..(hi - 1) :
                    cell(v + 1)[MinorAxis] - cell(v)[MinorAxis] \in {0, towards}
            /\ (from = <<0, 0>> /\ to = <<3, 1>>) =>
                    /\ Cardinality(DOMAIN trans_update) = 4
                    /\ \A v \in 0..2 : cell(v)[2] <= cell(v + 1)[2]
            /\ last.lines = 2 => trans_update = last.first

\* The line from (0,0) to (3,1) and the same line drawn back: four cells.
C22_Witness ==
    /\ last.lines = 2
    /\ brush.kind = "Single"
    /\ last.to = <<0, 0>>
    /\ last.from = <<3, 1>>
    /\ DOMAIN last.first = DOMAIN trans_update
    /\ Cardinality(DOMAIN trans_update) = 4
    /\ {<<0, 0>>, <<3, 1>>} \subseteq DOMAIN trans_update

(***************************************************************************)
(* TransTilesUpdate::rect_fill and rect_fill_random                        *)
(* (scene/tilemap/update.rs).                                              *)
(***************************************************************************)
\* TileRegion::from_points
TileRegion_from_points(origin, end) ==
    TileRegion(origin, Some(from_points(origin, end)))

\* Stamp::repeat: the region of the RepeatTileSource
Stamp_repeat(stamp, start, end) ==
    from_bounds_and_direction(bounding_rect(<<>>, DOMAIN stamp.tiles),
                              Sub2(start, end))

\* rect_fill_inner: `produced[t]` is what brush.get_at gave for the source
\* position of the target cell t.
rect_fill_inner(upd, region, trans, produced) ==
    LET written == {t \in RectCells(region.bounds) : produced[t] # <<>>}
    IN  [x \in DOMAIN upd \cup written |->
            IF x \in written THEN Some(<<trans, produced[x][1]>>) ELSE upd[x]]

\* Mutant: the stamp is read as it is, not repeated over the rectangle.
rect_fill_NoRepeat(upd, start, end, stamp) ==
    LET region == TileRegion_from_points(start, end)
    IN  rect_fill_inner(upd, region, transformation(stamp),
            [t \in RectCells(region.bounds) |->
                get_at(stamp, Sub2(t, region.origin))])

rect_fill(upd, start, end, stamp) ==
    LET region == TileRegion_from_points(start, end)
        source_region == Stamp_repeat(stamp, start, end)
    IN  rect_fill_inner(upd, region, transformation(stamp),
            [t \in RectCells(region.bounds) |->
                repeat_get_at(stamp, source_region, Sub2(t, region.origin))])

\* RandomTileSource::get_at: any tile of the stamp, none when it has no tile
RandomTiles(stamp) ==
    IF stamp.tiles = EmptyMap THEN {<<>>}
    ELSE {Some(stamp.tiles[p]) : p \in DOMAIN stamp.tiles}

rect_fill_random(upd, start, end, stamp, produced) ==
    rect_fill_inner(upd, TileRegion_from_points(start, end),
                    transformation(stamp), produced)

\* The stamps: two tiles side by side, two tiles on a diagonal (its bounding
\* rectangle has two holes), two tiles on the other diagonal away from the
\* origin, and no tile.
RectStamps ==
    {Stamp("rotated", PlacedTiles({<<0, 0>>, <<1, 0>>})),
     Stamp("identity", PlacedTiles({<<0, 0>>, <<1, 1>>})),
     Stamp("identity", PlacedTiles({<<-1, 3>>, <<0, 2>>})),
     Stamp("identity", EmptyMap)}
RectStarts == {<<0, 0>>, <<2, 1>>}
RectEnds == (0..2) \X (0..1)

InitRect ==
    /\ brush \in RectStamps
    /\ trans_update = EmptyMap
    /\ tiles = EmptyMap
    /\ tiles_update = EmptyMap
    /\ aborted = FALSE
    /\ last = [op |-> "new", fills |-> 0]
    /\ CacheUnused
    /\ RegistryUnused
    /\ SwapUnused
    /\ SceneUnused

\* rect_fill on a new update; the second call has the two points exchanged.
\* `last.first` keeps the cells the first call wrote.
RectFill(start, end) ==
    /\ last.fills < 2
    /\ last.fills = 1 =>
        last.op = "rect_fill" /\ start = last.end /\ end = last.start
    /\ trans_update' = rect_fill(EmptyMap, start, end, brush)
    /\ last' = [op |-> "rect_fill", fills |-> last.fills + 1,
                start |-> start, end |-> end,
                first |-> IF last.fills = 0 THEN {} ELSE DOMAIN trans_update]
    /\ UNCHANGED <<convertVars, collider_node, cacheVars, registryVars, aborted,
                   data, data_update, tiles, tiles_update, brush>>

\* rect_fill_random, in the same way.
RectFillRandom(start, end) ==
    /\ last.fills < 2
    /\ last.fills = 1 =>
        last.op = "rect_fill_random" /\ start = last.end /\ end = last.start
    /\ \E produced \in [RectCells(Some(from_points(start, end))) -> RandomTiles(brush)] :
        trans_update' = rect_fill_random(EmptyMap, start, end, brush, produced)
    /\ last' = [op |-> "rect_fill_random", fills |-> last.fills + 1,
                start |-> start, end |-> end,
                first |-> IF last.fills = 0 THEN {} ELSE DOMAIN trans_update]
    /\ UNCHANGED <<convertVars, collider_node, cacheVars, registryVars, aborted,
                   data, data_update, tiles, tiles_update, brush>>

NextRect ==
    \/ \E start \in RectStarts \cup RectEnds, end \in RectEnds \cup RectStarts :
        RectFill(start, end)
    \/ \E start \in RectStarts \cup RectEnds, end \in RectEnds \cup RectStarts :
        RectFillRandom(start, end)

SpecRect == InitRect /\ [][NextRect]_vars

\* A stamp with a tile in every cell of its bounding rectangle.
NoHoles ==
    /\ brush.tiles # EmptyMap
    /\ LET xs == {p[1] : p \in DOMAIN brush.tiles}
           ys == {p[2] : p \in DOMAIN brush.tiles}
       IN  DOMAIN brush.tiles = (SetMin(xs)..SetMax(xs)) \X (SetMin(ys)..SetMax(ys))

\* C23 as stated: rect_fill and rect_fill_random with a non-empty stamp write
\* every cell of the rectangle spanned by the two points and no other, and
\* the same cells when the points are exchanged.
C23_RectFillWritesEveryCell ==
    (last.fills > 0 /\ brush.tiles # EmptyMap) =>
        /\ DOMAIN trans_update = TargetCells
        /\ last.fills = 2 => DOMAIN trans_update = last.first

\* C23, amended: rect_fill with a stamp that has a tile in every cell of its
\* bounding rectangle, and rect_fill_random with a non-empty stamp, write
\* every cell of the rectangle spanned by the two points, and the same cells
\* when the points are exchanged; no fill writes a cell outside the rectangle.
C23_RectFill ==
    last.fills > 0 =>
        /\ DOMAIN trans_update \subseteq TargetCells
        /\ \A q \in DOMAIN trans_update :
                /\ trans_update[q] # <<>>
                /\ trans_update[q][1][1] = brush.transformation
                /\ <<trans_update[q][1][2]>> \in RandomTiles(brush)
        /\ (NoHoles \/ (last.op = "rect_fill_random" /\ brush.tiles # EmptyMap)) =>
                /\ DOMAIN trans_update = TargetCells
                /\ last.fills = 2 => DOMAIN trans_update = last.first

\* A rect_fill of a rectangle three cells wide and two high, from its right
\* top corner, with the stamp of two tiles side by side, after the same fill
\* from the other corner: six cells, both tiles in use.
C23_Witness ==
    /\ last.fills = 2
    /\ last.op = "rect_fill"
    /\ NoHoles
    /\ last.start = <<2, 1>>
    /\ last.end = <<0, 0>>
    /\ Cardinality(DOMAIN trans_update) = 6
    /\ Cardinality({trans_update[q] : q \in DOMAIN trans_update}) = 2

(***************************************************************************)
(* TransTilesUpdate::draw_tiles and erase_stamp (scene/tilemap/update.rs). *)
(***************************************************************************)
MaxDraws == 2

\* The for loop of draw_tiles and of erase_stamp: one insert per key of the
\* stamp, `value[k]` at origin + k.
InsertAtKeys(upd, origin, value) ==
    LET target == {Add2(origin, k) : k \in DOMAIN value}
    IN  [x \in DOMAIN upd \cup target |->
            IF x \in target THEN value[Sub2(x, origin)] ELSE upd[x]]

\* Mutant: the tiles are written at their place in the stamp.
draw_tiles_Local(upd, origin, stamp) ==
    InsertAtKeys(upd, <<0, 0>>,
        [k \in DOMAIN stamp.tiles |->
            Some(<<transformation(stamp), stamp.tiles[k]>>)])

draw_tiles(upd, origin, stamp) ==
    InsertAtKeys(upd, origin,
        [k \in DOMAIN stamp.tiles |->
            Some(<<transformation(stamp), stamp.tiles[k]>>)])

erase_stamp(upd, origin, stamp) ==
    InsertAtKeys(upd, origin, [k \in DOMAIN stamp.tiles |-> <<>>])

StampOrigins == {<<0, 0>>, <<1, 0>>, <<1, 1>>, <<-2, 3>>}

InitStamp ==
    /\ brush \in RectStamps
    /\ trans_update = EmptyMap
    /\ tiles = EmptyMap
    /\ tiles_update = EmptyMap
    /\ aborted = FALSE
    /\ last = [op |-> "new", draws |-> 0]
    /\ CacheUnused
    /\ RegistryUnused
    /\ SwapUnused
    /\ SceneUnused

\* `last.before` keeps the update as it was before the call.
DrawTiles(origin) ==
    /\ last.draws < MaxDraws
    /\ trans_update' = draw_tiles(trans_update, origin, brush)
    /\ last' = [op |-> "draw_tiles", draws |-> last.draws + 1,
                origin |-> origin, before |-> trans_update]
    /\ UNCHANGED <<convertVars, collider_node, cacheVars, registryVars, aborted,
                   data, data_update, tiles, tiles_update, brush>>

EraseStamp(origin) ==
    /\ last.draws < MaxDraws
    /\ trans_update' = erase_stamp(trans_update, origin, brush)
    /\ last' = [op |-> "erase_stamp", draws |-> last.draws + 1,
                origin |-> origin, before |-> trans_update]
    /\ UNCHANGED <<convertVars, collider_node, cacheVars, registryVars, aborted,
                   data, data_update, tiles, tiles_update, brush>>

NextStamp ==
    \/ \E origin \in StampOrigins : DrawTiles(origin)
    \/ \E origin \in StampOrigins : EraseStamp(origin)

SpecStamp == InitStamp /\ [][NextStamp]_vars

\* The cells origin + k of the last call, k a key of the stamp.
StampedCells == {Add2(last.origin, k) : k \in DOMAIN brush.tiles}

\* C24: draw_tiles(origin, stamp) sets the entry at origin + k to
\* Some((transformation, tile at k)) and erase_stamp sets it to None, for
\* every key k of the stamp, whatever the entry was; every other entry of the
\* update is as it was and no other entry appears.
C24_DrawTiles ==
    last.draws > 0 =>
        /\ DOMAIN trans_update = DOMAIN last.before \cup StampedCells
        /\ \A k \in DOMAIN brush.tiles :
            trans_update[Add2(last.origin, k)] =
                IF last.op = "draw_tiles"
                THEN <<(<<brush.transformation, brush.tiles[k]>>)>>
                ELSE <<>>
        /\ \A q \in DOMAIN last.before \ StampedCells :
            trans_update[q] = last.before[q]

\* A draw_tiles away from the origin that overwrote an erased entry and left
\* another entry alone.
C24_Witness ==
    /\ last.draws = 2
    /\ last.op = "draw_tiles"
    /\ last.origin # <<0, 0>>
    /\ \E q \in StampedCells \cap DOMAIN last.before :
            last.before[q] = <<>> /\ trans_update[q] # <<>>
    /\ \E q \in DOMAIN last.before \ StampedCells : trans_update[q] = <<>>

(***************************************************************************)
(* RepeatTileSource::get_at (scene/tilemap/tile_source.rs); `brush` is the *)
(* RepeatTileSource: a wrapped source and a region.                        *)
(***************************************************************************)
\* The wrapped sources: tiles that are all different, with and without a hole.
RepeatSources ==
    {Stamp("identity", PlacedTiles((-1..1) \X (0..1))),
     TilesSource(PlacedTiles(((-1..1) \X (0..1)) \ {<<0, 0>>}))}

\* The regions: a rectangle of the source, a rectangle beside it, no rectangle.
RepeatBounds ==
    {Some([position |-> <<-1, 0>>, size |-> <<2, 2>>]),
     Some([position |-> <<0, 0>>, size |-> <<3, 1>>]),
     <<>>}
RepeatOrigins == {<<0, 0>>, <<1, 1>>, <<-1, 0>>}
RepeatPositions == (-3..3) \X (-2..2)

RepeatTileSource(source, region) ==
    [kind |-> "Repeat", source |-> source, region |-> region]

InitRepeat ==
    /\ brush \in {RepeatTileSource(source, TileRegion(o, b)) :
                        source \in RepeatSources, o \in RepeatOrigins,
                        b \in RepeatBounds}
    /\ tiles_update = EmptyMap
    /\ trans_update = EmptyMap
    /\ tiles = EmptyMap
    /\ aborted = FALSE
    /\ last = [op |-> "new", calls |-> 0]
    /\ CacheUnused
    /\ RegistryUnused
    /\ SwapUnused
    /\ SceneUnused

\* get_at(position): `last` keeps the position handed to the wrapped source
\* and the result, and the position and result of the call before.
RepeatGetAt(position) ==
    /\ last' = [op |-> "get_at", calls |-> 1 + Sign(last.calls),
                position |-> position,
                forwarded |-> repeat_position(brush.region, position),
                ret |-> repeat_get_at(brush.source, brush.region, position),
                before |-> IF last.calls = 0 THEN <<>>
                           ELSE <<last.position, last.ret>>]
    /\ UNCHANGED <<convertVars, collider_node, cacheVars, registryVars, aborted,
                   data, data_update, tiles, tiles_update, trans_update, brush>>

NextRepeat == \E position \in RepeatPositions : RepeatGetAt(position)

SpecRepeat == InitRepeat /\ [][NextRepeat]_vars

\* a and b differ by a multiple of n
Congruent(a, b, n) == \E i \in -20..20 : a - b = i * n

\* C25: over a region whose rectangle has size (w,h), get_at is periodic with
\* period (w,h): two positions that differ by (i*w, j*h) get the same result;
\* the wrapped source is asked only for a cell of the rectangle, the one that
\* is congruent to position + origin modulo (w,h).
C25_Periodic ==
    (last.calls > 0 /\ brush.region.bounds # <<>>) =>
        LET rect == brush.region.bounds[1]
            shifted == Add2(last.position, brush.region.origin)
        IN  /\ last.forwarded # <<>>
            /\ last.forwarded[1] \in RectCells(brush.region.bounds)
            /\ \A i \in 1..2 :
                /\ Congruent(last.forwarded[1][i], shifted[i], rect.size[i])
                /\ last.forwarded[1][i] - rect.position[i] \in 0..(rect.size[i] - 1)
            /\ last.ret = TileAt(brush.source.tiles, last.forwarded[1])
            /\ (/\ last.calls = 2
                /\ \A i \in 1..2 :
                    Congruent(last.position[i], last.before[1][i], rect.size[i]))
                => last.ret = last.before[2]

\* Two calls a period apart, one of them left of and below the rectangle, that
\* gave the same tile.
C25_Witness ==
    /\ last.calls = 2
    /\ brush.region.bounds # <<>>
    /\ brush.region.origin = <<1, 1>>
    /\ last.ret # <<>>
    /\ last.ret = last.before[2]
    /\ last.position[1] < -2
    /\ last.position[2] < -1
    /\ last.before[1] =
            Add2(last.position, <<2 * brush.region.bounds[1].size[1],
                                  brush.region.bounds[1].size[2]>>)

(***************************************************************************)
(* TileDefinitionHandle (scene/tilemap/tile_source.rs).  An i16 is kept as *)
(* its 16 bits, a number in 0..65535; a string is a sequence of            *)
(* characters.                                                             *)
(***************************************************************************)
\* `x as i32` for an i16: the sign bit is extended
I16AsI32(bits) == IF bits >= 32768 THEN bits - 65536 ELSE bits

\* i16::try_from(i32), <<>> when the value does not fit
I16TryFrom(v) == IF v >= -32768 /\ v <= 32767 THEN Some(v % 65536) ELSE <<>>

\* Mutant: the coordinates are cast with `as i16`, which keeps the low bits.
try_position_Cast(source) == Some(<<source[1] % 65536, source[2] % 65536>>)

try_position(source) ==
    IF I16TryFrom(source[1]) = <<>> \/ I16TryFrom(source[2]) = <<>>
    THEN <<>>
    ELSE Some(<<I16TryFrom(source[1])[1], I16TryFrom(source[2])[1]>>)

position_to_vector(source) == <<I16AsI32(source[1]), I16AsI32(source[2])>>

TileDefinitionHandle(page, tile) == [page |-> page, tile |-> tile]

try_new(page, tile) ==
    IF try_position(page) = <<>> \/ try_position(tile) = <<>>
    THEN <<>>
    ELSE Some(TileDefinitionHandle(try_position(page)[1], try_position(tile)[1]))

\* TileDefinitionHandle::new(page_x, page_y, tile_x, tile_y), from i16 values
TileDefinitionHandle_new(a, b, c, d) ==
    TileDefinitionHandle(<<a % 65536, b % 65536>>, <<c % 65536, d % 65536>>)

handle_page(h) == position_to_vector(h.page)
handle_tile(h) == position_to_vector(h.tile)

DigitChars == <<"0", "1", "2", "3", "4", "5", "6", "7", "8", "9">>
IsDigit(c) == \E i \in 1..10 : DigitChars[i] = c
DigitValue(c) == (CHOOSE i \in 1..10 : DigitChars[i] = c) - 1

\* The `{}` of an i16: its decimal digits after a "-" when it is negative.
RECURSIVE FormatNat(_)
FormatNat(n) ==
    IF n < 10 THEN <<DigitChars[n + 1]>>
    ELSE FormatNat(n \div 10) \o <<DigitChars[(n % 10) + 1]>>
FormatInt(v) == IF v < 0 THEN <<"-">> \o FormatNat(-v) ELSE FormatNat(v)

\* Display for TileDefinitionHandle: "({},{}):({},{})"
Display(h) ==
    <<"(">> \o FormatInt(I16AsI32(h.page[1])) \o <<",">>
            \o FormatInt(I16AsI32(h.page[2])) \o <<")", ":", "(">>
            \o FormatInt(I16AsI32(h.tile[1])) \o <<",">>
            \o FormatInt(I16AsI32(h.tile[2])) \o <<")">>

\* Mutant: the text is split at every character that is not a digit.
IsWordChar_Digit(c) == IsDigit(c)

\* The characters that split does not cut at: c == '-' || c.is_ascii_digit()
IsWordChar(c) == c = "-" \/ IsDigit(c)

\* s.split(..).filter(|w| !w.is_empty()): the words of s from character i on,
\* `word` being the word read so far.
RECURSIVE Words(_, _, _)
Words(s, i, word) ==
    IF i > Len(s) THEN (IF word = <<>> THEN <<>> ELSE <<word>>)
    ELSE IF IsWordChar(s[i]) THEN Words(s, i + 1, Append(word, s[i]))
    ELSE (IF word = <<>> THEN <<>> ELSE <<word>>) \o Words(s, i + 1, <<>>)

RECURSIVE DigitsValue(_)
DigitsValue(w) ==
    IF w = <<>> THEN 0 ELSE 10 * DigitsValue(SubSeq(w, 1, Len(w) - 1))
                            + DigitValue(w[Len(w)])

\* str::parse::<i16> of a word: an optional sign and at least one digit, and
\* a value that fits; <<>> is the error.
ParseI16(w) ==
    LET negative == w # <<>> /\ w[1] = "-"
        digits == IF negative THEN Tail(w) ELSE w
    IN  IF digits = <<>> \/ \E i \in 1..Len(digits) : ~IsDigit(digits[i])
        THEN <<>>
        ELSE LET v == IF negative THEN -DigitsValue(digits)
                      ELSE DigitsValue(digits)
             IN  IF v >= -32768 /\ v <= 32767 THEN Some(v) ELSE <<>>

\* Mutant: what follows the fourth number is not looked at.
parse_FirstFour(s) ==
    LET words == Words(s, 1, <<>>)
    IN  IF Len(words) < 4 \/ \E i \in 1..4 : ParseI16(words[i]) = <<>>
        THEN <<>>
        ELSE Some(TileDefinitionHandle_new(
                    ParseI16(words[1])[1], ParseI16(words[2])[1],
                    ParseI16(words[3])[1], ParseI16(words[4])[1]))

\* TileDefinitionHandle::parse
parse(s) ==
    LET words == Words(s, 1, <<>>)
    IN  IF Len(words) < 4 \/ \E i \in 1..4 : ParseI16(words[i]) = <<>>
        THEN <<>>
        ELSE IF Len(words) > 4 THEN <<>>
        ELSE Some(TileDefinitionHandle_new(
                    ParseI16(words[1])[1], ParseI16(words[2])[1],
                    ParseI16(words[3])[1], ParseI16(words[4])[1]))

\* The coordinates try_new is given: the ends of the i16 range, their
\* neighbours outside it, and two values inside.
HandleCoordinates == {-32769, -32768, -1, 0, 32767, 32768}

\* The numbers of the texts given to parse, and what stands between them.
TextFields == {-7, 32767, 32768, -32769}
TextSeparators == {<<",">>, <<")", ":", "(">>, <<" ", "x">>}

\* The numbers of `fields`, each followed by `separator`, after a "(".
RECURSIVE TextOf(_, _)
TextOf(fields, separator) ==
    IF fields = <<>> THEN <<>>
    ELSE FormatInt(fields[1]) \o separator \o TextOf(Tail(fields), separator)

InitHandle ==
    /\ aborted = FALSE
    /\ last = [op |-> "new"]
    /\ CacheUnused
    /\ RegistryUnused
    /\ TilesUnused
    /\ SceneUnused

\* try_new, then page() and tile() of the handle it gave.
TryNew(page, tile) ==
    /\ last.op = "new"
    /\ LET ret == try_new(page, tile)
       IN  last' = [op |-> "try_new", page |-> page, tile |-> tile, ret |-> ret,
                    got_page |-> IF ret = <<>> THEN <<>> ELSE Some(handle_page(ret[1])),
                    got_tile |-> IF ret = <<>> THEN <<>> ELSE Some(handle_tile(ret[1]))]
    /\ UNCHANGED <<convertVars, collider_node, cacheVars, registryVars, aborted,
                   tileVars>>

\* to_string() of the handle that try_new gave.
ToText ==
    /\ last.op = "try_new"
    /\ last.ret # <<>>
    /\ last' = [op |-> "to_string", handle |-> last.ret[1],
                text |-> Display(last.ret[1])]
    /\ UNCHANGED <<convertVars, collider_node, cacheVars, registryVars, aborted,
                   tileVars>>

\* parse of the text of a handle.
ParseBack ==
    /\ last.op = "to_string"
    /\ last' = [op |-> "parse", of |-> "handle", handle |-> last.handle,
                text |-> last.text, ret |-> parse(last.text)]
    /\ UNCHANGED <<convertVars, collider_node, cacheVars, registryVars, aborted,
                   tileVars>>

\* parse of a text with the numbers `fields`.
ParseText(fields, separator) ==
    /\ last.op = "new"
    /\ LET text == <<"(">> \o TextOf(fields, separator)
       IN  last' = [op |-> "parse", of |-> "fields", fields |-> fields,
                    text |-> text, ret |-> parse(text)]
    /\ UNCHANGED <<convertVars, collider_node, cacheVars, registryVars, aborted,
                   tileVars>>

NextHandle ==
    \/ \E page, tile \in HandleCoordinates \X HandleCoordinates : TryNew(page, tile)
    \/ ToText
    \/ ParseBack
    \/ \E n \in 3..5 : \E fields \in [1..n -> TextFields] :
        \E separator \in TextSeparators : ParseText(fields, separator)

SpecHandle == InitHandle /\ [][NextHandle]_vars

InI16(v) == v >= -32768 /\ v <= 32767

\* C26: try_new(page, tile) gives a handle exactly when the four coordinates
\* are within -32768..32767, and page() and tile() of that handle are the
\* vectors given.
C26_TryNew ==
    last.op = "try_new" =>
        /\ last.ret # <<>> <=>
            (InI16(last.page[1]) /\ InI16(last.page[2])
                /\ InI16(last.tile[1]) /\ InI16(last.tile[2]))
        /\ last.ret # <<>> =>
            /\ last.got_page = <<last.page>>
            /\ last.got_tile = <<last.tile>>

\* A handle of the two ends of the range, read back.
C26_Witness ==
    /\ last.op = "try_new"
    /\ last.page = <<-32768, 32767>>
    /\ last.tile = <<-1, -32768>>
    /\ last.ret # <<>>
    /\ last.got_page = <<last.page>>
    /\ last.got_tile = <<last.tile>>

\* C27: parse of the Display text of a handle gives that handle, negative
\* coordinates included; parse of a text with fewer or more than four
\* numbers, or with a number outside -32768..32767, gives no handle.
C27_ParseDisplay ==
    last.op = "parse" =>
        /\ last.of = "handle" => last.ret = <<last.handle>>
        /\ (last.of = "fields"
            /\ (Len(last.fields) # 4
                \/ \E i \in 1..Len(last.fields) : ~InI16(last.fields[i])))
            => last.ret = <<>>

\* The text "(-32768,32767):(-1,-32768)" parsed back to its handle.
C27_Witness ==
    /\ last.op = "parse"
    /\ last.of = "handle"
    /\ last.text = <<"(", "-", "3", "2", "7", "6", "8", ",", "3", "2", "7", "6",
                     "7", ")", ":", "(", "-", "1", ",", "-", "3", "2", "7", "6",
                     "8", ")">>
    /\ last.ret = <<last.handle>>
    /\ handle_page(last.ret[1]) = <<-32768, 32767>>

(***************************************************************************)
(* TileSetUpdate::convert (scene/tilemap/update.rs).  A TileSet is its     *)
(* pages (the kind of source of each), what get_transformed_definition     *)
(* finds and what get_transformed_version finds, both for a                *)
(* <<transformation, handle>> pair.                                        *)
(***************************************************************************)
get_page(ts, page) ==
    IF page \in DOMAIN ts.pages THEN Some(ts.pages[page]) ELSE <<>>

get_transformed_definition(ts, t, h) ==
    IF <<t, h>> \in DOMAIN ts.definitions THEN Some(ts.definitions[<<t, h>>])
    ELSE <<>>

get_transformed_version(ts, t, h) ==
    IF <<t, h>> \in DOMAIN ts.versions THEN Some(ts.versions[<<t, h>>]) ELSE <<>>

TileData_default == TileData("white", EmptyMap, EmptyMap)

Erase == [variant |-> "Erase"]
MaterialTile(d) == [variant |-> "MaterialTile", tile_data |-> d]
FreeformTile(def) ==
    [variant |-> "FreeformTile", material_bounds |-> def.material_bounds,
     data |-> def.data]
TransformSet(source) == [variant |-> "TransformSet", source |-> source]

\* The for loop of the three conversions: an insert of `value[pos]` at the
\* handle of every position of `diff` that try_new accepts.
InsertAtHandles(self, diff, page, value) ==
    LET fits == {pos \in DOMAIN diff : try_new(page, pos) # <<>>}
        target == {try_new(page, pos)[1] : pos \in fits}
        source(h) == CHOOSE pos \in fits : try_new(page, pos)[1] = h
    IN  [h \in DOMAIN self \cup target |->
            IF h \in target THEN value[source(h)] ELSE self[h]]

convert_material(self, diff, page) ==
    InsertAtHandles(self, diff, page,
        [pos \in DOMAIN diff |->
            IF diff[pos] # <<>> THEN MaterialTile(TileData_default) ELSE Erase])

convert_freeform(self, diff, ts, page) ==
    InsertAtHandles(self, diff, page,
        [pos \in DOMAIN diff |->
            LET def == IF diff[pos] = <<>> THEN <<>>
                       ELSE get_transformed_definition(ts, diff[pos][1][1],
                                                       diff[pos][1][2])
            IN  IF def # <<>> THEN FreeformTile(def[1]) ELSE Erase])

\* Mutant: a tile without a transformed version is cleared.
convert_transform_NoFallback(self, diff, ts, page) ==
    InsertAtHandles(self, diff, page,
        [pos \in DOMAIN diff |->
            IF diff[pos] # <<>>
            THEN TransformSet(get_transformed_version(ts, diff[pos][1][1],
                                                      diff[pos][1][2]))
            ELSE TransformSet(<<>>)])

convert_transform(self, diff, ts, page) ==
    InsertAtHandles(self, diff, page,
        [pos \in DOMAIN diff |->
            IF diff[pos] # <<>>
            THEN LET version == get_transformed_version(ts, diff[pos][1][1],
                                                        diff[pos][1][2])
                 IN  TransformSet(Some(IF version # <<>> THEN version[1]
                                       ELSE diff[pos][1][2]))
            ELSE TransformSet(<<>>)])

\* Mutant: a page that is not in the tile set is taken for a material page.
convert_MissingAsMaterial(self, diff, ts, page) ==
    IF get_page(ts, page) = <<>> THEN convert_material(self, diff, page)
    ELSE IF get_page(ts, page)[1] = "Material" THEN convert_material(self, diff, page)
    ELSE IF get_page(ts, page)[1] = "Freeform"
    THEN convert_freeform(self, diff, ts, page)
    ELSE convert_transform(self, diff, ts, page)

convert(self, diff, ts, page) ==
    IF get_page(ts, page) = <<>> THEN self
    ELSE IF get_page(ts, page)[1] = "Material" THEN convert_material(self, diff, page)
    ELSE IF get_page(ts, page)[1] = "Freeform"
    THEN convert_freeform(self, diff, ts, page)
    ELSE convert_transform(self, diff, ts, page)

\* The tile sets: three pages, one of each kind; a definition and a version
\* for some of the pairs only.
TileSets ==
    {[pages |-> (<<0, 0>> :> "Material" @@ <<1, 0>> :> "Freeform"
                    @@ <<0, -1>> :> "TransformSet"),
      definitions |->
        (<<"rotated", "h2">> :>
            [material_bounds |-> "bounds", data |-> TileData("red", EmptyMap, EmptyMap)]),
      versions |-> v] :
        v \in {EmptyMap, (<<"rotated", "h2">> :> "h1")}}

\* The pages asked for: the three of the tile set and one that it has not.
ConvertPages == {<<0, 0>>, <<1, 0>>, <<0, -1>>, <<2, 2>>}

\* The positions of the update that is converted (one does not fit an i16)
\* and its values.
ConvertPositions == {<<0, 0>>, <<1, -1>>, <<40000, 0>>}
ConvertValues == {<<>>, Some(<<"identity", "h1">>), Some(<<"rotated", "h2">>)}

\* The TileSetUpdate before the call: empty, or with two entries, one of
\* them at a handle the conversion of page (0,0) writes.
SetUpdates ==
    {EmptyMap,
     (TileDefinitionHandle_new(0, 0, 0, 0) :> [variant |-> "Color", color |-> "red"]
        @@ TileDefinitionHandle_new(7, 7, 1, -1) :> Erase)}

InitConvert ==
    /\ set_update \in SetUpdates
    /\ tile_set \in TileSets
    /\ trans_update \in MapsTo(ConvertPositions, ConvertValues)
    /\ collider_node = None
    /\ tiles = EmptyMap
    /\ tiles_update = EmptyMap
    /\ brush = None
    /\ aborted = FALSE
    /\ last = [op |-> "new"]
    /\ CacheUnused
    /\ RegistryUnused
    /\ SwapUnused

\* One convert; `last.before` keeps the TileSetUpdate as it was.
Convert(page) ==
    /\ last.op = "new"
    /\ set_update' = convert(set_update, trans_update, tile_set, page)
    /\ last' = [op |-> "convert", page |-> page, before |-> set_update]
    /\ UNCHANGED <<tile_set, collider_node, cacheVars, registryVars, aborted,
                   tileVars>>

NextConvert == \E page \in ConvertPages : Convert(page)

SpecConvert == InitConvert /\ [][NextConvert]_vars

\* C28: convert for a page that the tile set does not have leaves the
\* TileSetUpdate as it was and raises no error.
C28_MissingPage ==
    (last.op = "convert" /\ last.page \notin DOMAIN tile_set.pages) =>
        /\ set_update = last.before
        /\ ~aborted

\* A convert of an update with entries, for a page the tile set has not, on a
\* TileSetUpdate with entries.
C28_Witness ==
    /\ last.op = "convert"
    /\ last.page \notin DOMAIN tile_set.pages
    /\ DOMAIN trans_update = ConvertPositions
    /\ set_update # EmptyMap
    /\ set_update = last.before

\* The positions of the converted update whose coordinates fit an i16.
FitPositions == {pos \in DOMAIN trans_update : InI16(pos[1]) /\ InI16(pos[2])}

\* The entry that C29 gives for the position `pos` on a page of kind `kind`.
ExpectedEntry(kind, pos) ==
    LET value == trans_update[pos]
    IN  IF kind = "Material"
        THEN (IF value # <<>> THEN [variant |-> "MaterialTile",
                                    tile_data |-> TileData_default]
              ELSE [variant |-> "Erase"])
        ELSE IF kind = "Freeform"
        THEN (IF value # <<>> /\ value[1] \in DOMAIN tile_set.definitions
              THEN [variant |-> "FreeformTile",
                    material_bounds |-> tile_set.definitions[value[1]].material_bounds,
                    data |-> tile_set.definitions[value[1]].data]
              ELSE [variant |-> "Erase"])
        ELSE (IF value = <<>> THEN [variant |-> "TransformSet", source |-> <<>>]
              ELSE IF value[1] \in DOMAIN tile_set.versions
              THEN [variant |-> "TransformSet",
                    source |-> <<tile_set.versions[value[1]]>>]
              ELSE [variant |-> "TransformSet", source |-> <<value[1][2]>>])

NONE == 0

SHAPE == 1

RESTITUTION == 2

COLLISION_GROUPS == 4

FRICTION == 8

FRICTION_COMBINE_RULE == 16

RESTITUTION_COMBINE_RULE == 32

IS_SENSOR == 64

SOLVER_GROUPS == 128

DENSITY == 256

ColliderChanges ==
    {SHAPE, RESTITUTION, COLLISION_GROUPS, FRICTION, FRICTION_COMBINE_RULE,
     RESTITUTION_COMBINE_RULE, IS_SENSOR, SOLVER_GROUPS, DENSITY}

RECURSIVE BitOr(_, _)
\* a | b on u32
BitOr(a, b) ==
    IF a = 0 THEN b
    ELSE IF b = 0 THEN a
    ELSE (IF a % 2 = 1 \/ b % 2 = 1 THEN 1 ELSE 0)
         + 2 * BitOr(a \div 2, b \div 2)

\* a mask that forgets the flags that were raised before
insert_Overwrite(changes, flag) == flag

\* bitflags insert: self.bits |= other.bits
insert(changes, flag) == BitOr(changes, flag)

ColliderShapes == {"Ball", "Cuboid"}

Frictions == {0, 1}

Densities == {<<>>, Some(1)}

Restitutions == {1}

InteractionGroupsDescs == {"custom"}

\* Collider of ColliderBuilder::build_node; Default::default is the node
\* of a builder that was given nothing
build_node(shape, friction, density, restitution, is_sensor, collision_groups, solver_groups) ==
    [shape |-> shape, friction |-> friction, density |-> density,
     restitution |-> restitution, is_sensor |-> is_sensor,
     collision_groups |-> collision_groups, solver_groups |-> solver_groups,
     native |-> "invalid", changes |-> NONE]

Collider_default == build_node("Ball", 0, <<>>, 0, FALSE, "default", "default")

raw_copy(self) == [self EXCEPT !.native = "invalid", !.changes = NONE]

set_shape(self, shape) ==
    [self EXCEPT !.shape = shape, !.changes = insert(@, SHAPE)]

\* the guard of shape_mut: what is written through deref_mut, then drop
ColliderShapeRefMut_drop(parent, written) ==
    [parent EXCEPT !.shape = IF written = <<>> THEN @ ELSE written[1],
                   !.changes = insert(@, SHAPE)]

set_restitution(self, restitution) ==
    [self EXCEPT !.restitution = restitution,
                 !.changes = insert(@, RESTITUTION)]

set_density(self, density) ==
    [self EXCEPT !.density = density, !.changes = insert(@, DENSITY)]

set_friction(self, friction) ==
    [self EXCEPT !.friction = friction, !.changes = insert(@, FRICTION)]

set_collision_groups(self, groups) ==
    [self EXCEPT !.collision_groups = groups,
                 !.changes = insert(@, COLLISION_GROUPS)]

set_solver_groups(self, groups) ==
    [self EXCEPT !.solver_groups = groups,
                 !.changes = insert(@, SOLVER_GROUPS)]

set_is_sensor(self, is_sensor) ==
    [self EXCEPT !.is_sensor = is_sensor, !.changes = insert(@, IS_SENSOR)]

InitCollider ==
    /\ \/ collider_node = Collider_default /\ last = [op |-> "default", called |-> {}]
       \/ /\ \E shape \in ColliderShapes, density \in Densities, is_sensor \in BOOLEAN :
                collider_node = build_node(shape, 0, density, 0, is_sensor,
                                           "default", "default")
          /\ last = [op |-> "build_node", called |-> {}]
    /\ aborted = FALSE
    /\ ConvertUnused
    /\ CacheUnused
    /\ RegistryUnused
    /\ TilesUnused

\* a setter was called on the node
Called(op, node) ==
    /\ collider_node' = node
    /\ last' = [op |-> op, called |-> last.called \cup {op},
                before |-> collider_node.changes]
    /\ UNCHANGED <<convertVars, cacheVars, registryVars, aborted, tileVars>>

RawCopy ==
    /\ collider_node' = raw_copy(collider_node)
    /\ last' = [op |-> "raw_copy", called |-> {}]
    /\ UNCHANGED <<convertVars, cacheVars, registryVars, aborted, tileVars>>

SetShape == \E shape \in ColliderShapes :
    Called("set_shape", set_shape(collider_node, shape))

ShapeMut == \E written \in {<<>>} \cup {Some(shape) : shape \in ColliderShapes} :
    Called("shape_mut", ColliderShapeRefMut_drop(collider_node, written))

SetRestitution == \E restitution \in Restitutions :
    Called("set_restitution", set_restitution(collider_node, restitution))

SetDensity == \E density \in Densities :
    Called("set_density", set_density(collider_node, density))

SetFriction == \E friction \in Frictions :
    Called("set_friction", set_friction(collider_node, friction))

SetCollisionGroups == \E groups \in InteractionGroupsDescs :
    Called("set_collision_groups", set_collision_groups(collider_node, groups))

SetSolverGroups == \E groups \in InteractionGroupsDescs :
    Called("set_solver_groups", set_solver_groups(collider_node, groups))

SetIsSensor == \E is_sensor \in BOOLEAN :
    Called("set_is_sensor", set_is_sensor(collider_node, is_sensor))

NextCollider ==
    \/ RawCopy
    \/ SetShape
    \/ ShapeMut
    \/ SetRestitution
    \/ SetDensity
    \/ SetFriction
    \/ SetCollisionGroups
    \/ SetSolverGroups
    \/ SetIsSensor

SpecCollider == InitCollider /\ [][NextCollider]_vars

RECURSIVE BitsFrom(_, _)
\* the bits that are set in a mask, counted from bit i
BitsFrom(mask, i) ==
    IF mask = 0 THEN {}
    ELSE (IF mask % 2 = 1 THEN {i} ELSE {}) \cup BitsFrom(mask \div 2, i + 1)

\* the bits that are set in a mask
BitsOf(mask) == BitsFrom(mask, 0)

\* the flag that belongs to each setter
FlagOfSetter ==
    [set_shape |-> SHAPE, shape_mut |-> SHAPE,
     set_restitution |-> RESTITUTION, set_density |-> DENSITY,
     set_friction |-> FRICTION, set_is_sensor |-> IS_SENSOR,
     set_collision_groups |-> COLLISION_GROUPS,
     set_solver_groups |-> SOLVER_GROUPS]

\* C30: the mask of changes of a collider is empty when the collider is
\* built, defaulted or copied by raw_copy; after any sequence of setters it
\* is the union of the flags of the setters that were called, a setter adds
\* its own flag and leaves every other flag as it was, and the flags are
\* pairwise distinct single bits.
C30_Changes ==
    /\ last.op \in {"build_node", "default", "raw_copy"} =>
           collider_node.changes = 0
    /\ BitsOf(collider_node.changes) =
           UNION {BitsOf(FlagOfSetter[s]) : s \in last.called}
    /\ last.op \in DOMAIN FlagOfSetter =>
           BitsOf(collider_node.changes) =
               BitsOf(last.before) \cup BitsOf(FlagOfSetter[last.op])
    /\ \A f \in ColliderChanges :
           /\ Cardinality(BitsOf(f)) = 1
           /\ \A g \in ColliderChanges : f # g => BitsOf(f) # BitsOf(g)

\* three different setters and a repeated one have been called
C30_Witness ==
    /\ last.op = "set_density"
    /\ last.before = 1 + 8 + 256
    /\ collider_node.changes = 1 + 8 + 256
    /\ last.called = {"shape_mut", "set_friction", "set_density"}

(***************************************************************************)
(* Further properties of ObserverVisibilityCache.                          *)
(***************************************************************************)
\* The visibility_info of every pair the calls can ask for.
AllInfo(cs) ==
    [p \in Positions, n \in Nodes |-> visibility_info(cs, granularity, p, n)]

\* C31: when Query::new fails inside begin_conditional_query or
\* begin_non_conditional_query, the call returns the error as a value, adds
\* no pending query, and the visibility_info of every (position, node) pair
\* is what it was before the call.
C31_AllocationFailure ==
    [][(/\ last'.op \in {"begin_conditional_query",
                         "begin_non_conditional_query"}
        /\ ~last'.alloc_ok
        /\ last'.op = "begin_conditional_query" =>
                last'.in_graph /\ ~last'.inside) =>
            /\ last'.ret = "Err"
            /\ ~aborted'
            /\ pending_queries' = pending_queries
            /\ AllInfo(cells') = AllInfo(cells)]_vars

\* C31 witness: begin_conditional_query returned the error for a pair that
\* has no entry; its cell was created by the call and is empty, and the
\* query of another call is pending.
C31_Witness ==
    /\ last.op = "begin_conditional_query"
    /\ last.ret = "Err"
    /\ last.before = None
    /\ world_to_grid(last.pos, granularity) \in DOMAIN cells
    /\ cells[world_to_grid(last.pos, granularity)] = EmptyMap
    /\ pending_queries # <<>>

\* The queries of `pq` that are still in the vector `kept`.
StillPending(pq, kept) ==
    {i \in 1..Len(pq) : \E j \in 1..Len(kept) : kept[j] = pq[i]}

\* C32 (as claimed): a begun query that reports no result stays in the
\* pending list only until update evicts, by distance, the cell of the
\* query's observer position: that update discards the query together with
\* the cell.
C32_EvictionDiscardsPending ==
    [][(last'.op = "update" /\ ~aborted') =>
        \A i \in 1..Len(pending_queries) :
            LET c == world_to_grid(pending_queries[i].observer_position,
                                   granularity)
            IN  (/\ last'.results[i] = "none"
                 /\ c \in DOMAIN cells
                 /\ c \notin DOMAIN cells') =>
                    i \notin StillPending(pending_queries, pending_queries')]_vars

\* The cell of a pending query.
QueryCell(q) == world_to_grid(q.observer_position, granularity)

\* C35 (as claimed): in every reachable state each pending query's observer
\* cell exists and holds an entry for the query's node, so that update never
\* aborts on a completed query.
C35_PendingCellExists ==
    /\ \A i \in 1..Len(pending_queries) :
            HasPair(cells, QueryCell(pending_queries[i]),
                    pending_queries[i].node)
    /\ ~(aborted /\ last.op = "update")

\* C36: a (cell, node) pair whose state is Undefined has a pending query of
\* that node whose observer position maps to that cell.
C36_UndefinedHasPending ==
    \A c \in DOMAIN cells : \A n \in DOMAIN cells[c] :
        cells[c][n] = Undefined =>
            \E i \in 1..Len(pending_queries) :
                /\ pending_queries[i].node = n
                /\ QueryCell(pending_queries[i]) = c

\* C36 witness: an update polled the ended query of an Undefined pair, which
\* was not ready, and evicted another cell; the pair is still Undefined.
C36_Witness ==
    /\ last.op = "update"
    /\ ~aborted
    /\ Len(pending_queries) = 1
    /\ pending_queries[1].ended
    /\ Cardinality(DOMAIN cells) = 1
    /\ HasPair(cells, QueryCell(pending_queries[1]), pending_queries[1].node)
    /\ cells[QueryCell(pending_queries[1])][pending_queries[1].node] = Undefined

\* C37 (as claimed): when run_query returns, with success or with an error,
\* every query it began has also been ended: the call adds no pending query
\* that was begun and not ended.
C37_BegunIsEnded ==
    [][last'.op = "run_query" =>
        \A i \in (Len(pending_queries) + 1)..Len(pending_queries') :
            pending_queries'[i].ended]_vars

(***************************************************************************)
(* The cache together with what the scene graph holds for the node of a    *)
(* begin_non_conditional_query call: the call does not look at the graph,  *)
(* and the record of the call notes where the observer is.                 *)
(***************************************************************************)
BeginNonConditionalQueryOf(observer_position, node, node_ref, alloc_ok) ==
    /\ ~aborted
    /\ Len(pending_queries) < MaxPending
    /\ \E effect \in {begin_non_conditional_query(cells, pending_queries,
                        granularity, observer_position, node, alloc_ok)} :
           Apply(effect,
                 [op |-> "begin_non_conditional_query",
                  pos |-> observer_position, node |-> node,
                  in_graph |-> node_ref # NoNode,
                  inside |-> node_ref # NoNode
                             /\ is_contains_point(node_ref, observer_position),
                  alloc_ok |-> alloc_ok,
                  before |-> Observed(cells, observer_position, node),
                  ret |-> effect.ret])

NextGraph ==
    \/ \E p \in Positions, n \in Nodes : NeedsOcclusionQuery(p, n)
    \/ \E p \in Positions, n \in Nodes : IsVisible(p, n)
    \/ \E p \in Positions, n \in Nodes, r \in NodeRefs, a \in BOOLEAN :
            BeginConditionalQuery(p, n, r, a)
    \/ \E p \in Positions, n \in Nodes, r \in NodeRefs, a \in BOOLEAN :
            BeginNonConditionalQueryOf(p, n, r, a)
    \/ EndQuery
    \/ \E p \in Positions, r \in PossibleResults(pending_queries) : Update(p, r)
    \/ \E p \in Positions, n \in Nodes, r \in NodeRefs, a \in BOOLEAN,
          d \in BOOLEAN : RunQuery(p, n, r, a, d)

SpecGraph == Init /\ [][NextGraph]_vars

\* A begin call changed nothing but, at most, the pair of the call, which it
\* left as it was or, if it was absent, absent or with the value `first`.
OnlyFirstValue(first) ==
    LET own == world_to_grid(last'.pos, granularity)
        before == visibility_info(cells, granularity, last'.pos, last'.node)
        after == visibility_info(cells', granularity, last'.pos, last'.node)
    IN  /\ before # None => after = before
        /\ before = None => after \in {None, first}
        /\ \A c \in (DOMAIN cells \cup DOMAIN cells') \ {own} :
                c \in DOMAIN cells /\ c \in DOMAIN cells' /\ cells'[c] = cells[c]
        /\ own \in DOMAIN cells => own \in DOMAIN cells'
        /\ own \in DOMAIN cells' =>
                \A n \in DOMAIN cells'[own] \ {last'.node} :
                    HasPair(cells, own, n) /\ cells'[own][n] = cells[own][n]
        /\ own \in DOMAIN cells =>
                \A n \in DOMAIN cells[own] : HasPair(cells', own, n)

IsBegin(op) == op \in {"begin_conditional_query", "begin_non_conditional_query"}

\* C38 (as claimed): the two begin calls never change the value of a pair
\* that has one; they only give an absent pair its first value, Visible when
\* the observer is inside the bounding box of the node and Undefined
\* otherwise, and they change no other pair and no other cell.
C38_FirstValueByBox ==
    [][IsBegin(last'.op) =>
        OnlyFirstValue(IF last'.inside THEN Visible ELSE Undefined)]_vars

\* C38 (amended): the same, the first value being Visible only for
\* begin_conditional_query with the observer inside the bounding box, and
\* Undefined for begin_conditional_query outside the box and for every
\* begin_non_conditional_query.
C38_FirstValue ==
    [][IsBegin(last'.op) =>
        OnlyFirstValue(IF last'.op = "begin_conditional_query" /\ last'.inside
                       THEN Visible ELSE Undefined)]_vars

\* C38 witness: begin_non_conditional_query, with the observer inside the
\* box of the node, gave an absent pair the value Undefined in a cell that
\* the call created, next to another cell.
C38_Witness ==
    /\ last.op = "begin_non_conditional_query"
    /\ last.inside
    /\ last.before = None
    /\ LastInfo = Undefined
    /\ Cardinality(DOMAIN cells) = 2

(***************************************************************************)
(* The cache as the renderer drives it: run_query for the nodes of a       *)
(* frame, update once per frame.  Fairness: update keeps being called, and *)
(* a query that was begun and ended has its result at some update.         *)
(***************************************************************************)
\* The polls in which every ended query reports its result.
EveryEndedReports(pq) ==
    {r \in PossibleResults(pq) : \A i \in 1..Len(pq) : pq[i].ended => r[i] # "none"}

Poll ==
    \E p \in Positions, r \in EveryEndedReports(pending_queries) : Update(p, r)

NextFrames ==
    \/ \E p \in Positions, n \in Nodes, r \in NodeRefs, a \in BOOLEAN,
          d \in BOOLEAN : RunQuery(p, n, r, a, d)
    \/ \E p \in Positions, r \in PossibleResults(pending_queries) : Update(p, r)

SpecFrames == Init /\ [][NextFrames]_vars /\ WF_vars(Poll)

\* The cells of the positions the calls draw from.
GridCells ==
    UNION {{world_to_grid(p, g) : p \in Positions} : g \in Granularities}

IsUndefined(c, n) == HasPair(cells, c, n) /\ cells[c][n] = Undefined

\* C34 (as claimed): with update called again and again and every begun and
\* ended query reporting a result at some time, every pair that is
\* Undefined is later Visible or Invisible or gone with its cell: no pair
\* stays Undefined for ever.
C34_EventuallyResolved ==
    \A n \in Nodes :
        \A c \in GridCells :
            IsUndefined(c, n) ~> ~IsUndefined(c, n)

\* A pending query of the pair that was begun and has not been ended.
HasOpenQuery(c, n) ==
    \E i \in 1..Len(pending_queries) :
        /\ pending_queries[i].node = n
        /\ QueryCell(pending_queries[i]) = c
        /\ ~pending_queries[i].ended

\* C34, apart from the two defects: an Undefined pair is resolved or
\* evicted unless update has aborted or a query of the pair was left
\* without its end.
C34_ResolvedUnlessAbortedOrOpen ==
    \A n \in Nodes :
        \A c \in GridCells :
            IsUndefined(c, n) ~>
                (~IsUndefined(c, n) \/ aborted \/ HasOpenQuery(c, n))

\* The bounding rectangle of the tiles of the stamp.
StampBounds == bounding_rect(<<>>, DOMAIN brush.tiles)

\* C40: rect_fill over a rectangle as wide and as high as the bounding
\* rectangle of the stamp reproduces the stamp moved onto the rectangle: the
\* cell at offset d from the low corner of the rectangle receives the tile
\* of the stamp at offset d from the low corner of the stamp, a cell where
\* the stamp has no tile gets no entry, and this is so whichever of the four
\* corners of the rectangle is `start`.
C40_SameSizeRectFill ==
    (/\ last.op = "rect_fill"
     /\ StampBounds # <<>>
     /\ from_points(last.start, last.end).size = StampBounds[1].size) =>
        LET rect == from_points(last.start, last.end)
            offsets == (0..(rect.size[1] - 1)) \X (0..(rect.size[2] - 1))
        IN  /\ DOMAIN trans_update \subseteq {Add2(rect.position, d) : d \in offsets}
            /\ \A d \in offsets :
                LET source == Add2(StampBounds[1].position, d)
                    target == Add2(rect.position, d)
                IN  IF source \in DOMAIN brush.tiles
                    THEN /\ target \in DOMAIN trans_update
                         /\ trans_update[target] =
                                Some(<<transformation(brush), brush.tiles[source]>>)
                    ELSE target \notin DOMAIN trans_update

\* C40 witness: the stamp with holes, away from the origin, was filled into
\* a rectangle of its size from a corner that is high on one axis only, and
\* before that from the opposite corner.
C40_Witness ==
    /\ last.op = "rect_fill"
    /\ last.fills = 2
    /\ StampBounds # <<>>
    /\ StampBounds[1].position # <<0, 0>>
    /\ from_points(last.start, last.end).size = StampBounds[1].size
    /\ Cardinality(DOMAIN trans_update) = 2
    /\ last.start[1] < last.end[1]
    /\ last.start[2] > last.end[2]

(***************************************************************************)
(* flood_fill on a TransTilesUpdate that earlier drawing operations have   *)
(* written to.                                                             *)
(***************************************************************************)
\* The tiles of the map, a tile or no tile in each cell.
OverTiles == MapsTo(FillPositions, {"h1"})

\* What was drawn before the fill: nothing, one tile, an erased cell and a
\* tile that cut the map in two, a tile outside the map.
OverUpdates ==
    {EmptyMap,
     [x \in {<<1, 0>>} |-> Some(<<"identity", "h2">>)],
     [x \in {<<1, 0>>, <<1, 1>>} |->
        IF x = <<1, 0>> THEN <<>> ELSE Some(<<"identity", "h2">>)],
     [x \in {<<3, 0>>} |-> Some(<<"rotated", "h2">>)]}

OverSeeds == {<<0, 0>>, <<1, 0>>, <<3, 1>>, <<1, -1>>}

InitFillOver ==
    /\ tiles \in OverTiles
    /\ brush \in FillBrushes
    /\ trans_update \in OverUpdates
    /\ tiles_update = EmptyMap
    /\ aborted = FALSE
    /\ last = [op |-> "new"]
    /\ CacheUnused
    /\ RegistryUnused
    /\ SceneUnused
    /\ SwapUnused

\* One call of flood_fill; `before` is the update as the call found it.
FloodFillOver(start_point) ==
    /\ last.op = "new"
    /\ \E filled \in {flood_fill(trans_update, tiles, start_point, brush)} :
        /\ trans_update' = filled.update
        /\ last' = [op |-> "flood_fill", start |-> start_point,
                    writes |-> filled.writes, before |-> trans_update]
    /\ UNCHANGED <<convertVars, collider_node, cacheVars, registryVars, aborted,
                   data, data_update, tiles, tiles_update, brush>>

NextFillOver == \E p \in OverSeeds : FloodFillOver(p)

SpecFillOver == InitFillOver /\ [][NextFillOver]_vars

\* The cells a fill from `seed` can reach without passing through a cell
\* that is in `before`.
Reachable(seed, before) ==
    IF seed \in DOMAIN before THEN {}
    ELSE Component({seed},
            {q \in ExtendedBounds(tiles, seed) :
                TileAt(tiles, q) = TileAt(tiles, seed)} \ DOMAIN before)

\* C39: flood_fill neither overwrites nor removes an entry that was in the
\* TransTilesUpdate before the call; such cells are not filled and the fill
\* does not spread through them, and when the seed cell has an entry the
\* call changes nothing.
C39_KeepsEarlierEntries ==
    last.op = "flood_fill" =>
        /\ \A p \in DOMAIN last.before :
            p \in DOMAIN trans_update /\ trans_update[p] = last.before[p]
        /\ DOMAIN trans_update \ DOMAIN last.before =
                Reachable(last.start, last.before)
        /\ last.start \in DOMAIN last.before =>
                trans_update = last.before /\ last.writes = 0

\* C39 witness: the entries drawn before cut the map in two; the fill wrote
\* the cells on the side of the seed and none on the other side, where cells
\* of the same tile as the seed are left.
C39_Witness ==
    /\ last.op = "flood_fill"
    /\ DOMAIN last.before = {<<1, 0>>, <<1, 1>>}
    /\ last.start = <<0, 0>>
    /\ DOMAIN trans_update = {<<0, 0>>, <<0, 1>>, <<1, 0>>, <<1, 1>>}
    /\ TileAt(tiles, <<2, 0>>) = TileAt(tiles, <<0, 0>>)
    /\ trans_update[<<1, 0>>] = <<>>

(***************************************************************************)
(* The loop of flood_fill, one iteration at a time.  `last` holds the      *)
(* position of the call: its seed, its work stack and, in order, the cells *)
(* it has written.                                                         *)
(***************************************************************************)
\* The bounds of the call: tiles.bounding_rect() with the seed pushed.
FillBounds(ts, start_point) == push(bounding_rect(<<>>, DOMAIN ts), start_point)

\* Mutant: a position that was written is written again.
FloodFillIteration_Rewrite(upd, ts, start_point, b, stack) ==
    LET position == stack[Len(stack)]
        rest == SubSeq(stack, 1, Len(stack) - 1)
    IN  IF TileAt(ts, position) = TileAt(ts, start_point)
        THEN
            LET h == get_at(b, Sub2(position, start_point))
                value == IF h = <<>> THEN <<>>
                         ELSE Some(<<transformation(b), h[1]>>)
            IN  [update |-> MapInsert(upd, position, value),
                 stack |-> rest \o SelectSeq(Neighbours(position),
                        LAMBDA n : contains(FillBounds(ts, start_point), n)),
                 wrote |-> <<position>>]
        ELSE [update |-> upd, stack |-> rest, wrote |-> <<>>]

\* The body of `while let Some(position) = stack.pop()`.
FloodFillIteration(upd, ts, start_point, b, stack) ==
    LET position == stack[Len(stack)]
        rest == SubSeq(stack, 1, Len(stack) - 1)
    IN  IF TileAt(ts, position) = TileAt(ts, start_point)
           /\ position \notin DOMAIN upd
        THEN
            LET h == get_at(b, Sub2(position, start_point))
                value == IF h = <<>> THEN <<>>
                         ELSE Some(<<transformation(b), h[1]>>)
            IN  [update |-> MapInsert(upd, position, value),
                 stack |-> rest \o SelectSeq(Neighbours(position),
                        LAMBDA n : contains(FillBounds(ts, start_point), n)),
                 wrote |-> <<position>>]
        ELSE [update |-> upd, stack |-> rest, wrote |-> <<>>]

StepSeeds == {<<0, 0>>, <<3, 1>>, <<1, -1>>}

StepUpdates ==
    {EmptyMap, [x \in {<<1, 0>>} |-> Some(<<"identity", "h2">>)]}

InitFillSteps ==
    /\ tiles \in OverTiles
    /\ brush \in FillBrushes
    /\ trans_update \in StepUpdates
    /\ tiles_update = EmptyMap
    /\ aborted = FALSE
    /\ last = [op |-> "new"]
    /\ CacheUnused
    /\ RegistryUnused
    /\ SceneUnused
    /\ SwapUnused

\* The call, up to the loop: the stack holds the seed.
FloodFillEnter(start_point) ==
    /\ last.op = "new"
    /\ last' = [op |-> "flood_fill", start |-> start_point,
                stack |-> <<start_point>>, written |-> <<>>,
                before |-> trans_update]
    /\ UNCHANGED <<convertVars, collider_node, cacheVars, registryVars, aborted,
                   tileVars>>

\* One iteration of the loop; the call returns when the stack is empty.
FloodFillPop ==
    /\ last.op = "flood_fill"
    /\ last.stack # <<>>
    /\ \E it \in {FloodFillIteration(trans_update, tiles, last.start, brush,
                                     last.stack)} :
        /\ trans_update' = it.update
        /\ last' = [last EXCEPT !.stack = it.stack,
                                !.written = @ \o it.wrote]
    /\ UNCHANGED <<convertVars, collider_node, cacheVars, registryVars, aborted,
                   data, data_update, tiles, tiles_update, brush>>

NextFillSteps ==
    \/ \E p \in StepSeeds : FloodFillEnter(p)
    \/ FloodFillPop

SpecFillSteps == InitFillSteps /\ [][NextFillSteps]_vars /\ WF_vars(FloodFillPop)

InLoop == last.op = "flood_fill"

\* The loop has ended.
Returned ==
    /\ InLoop
    /\ last.stack = <<>>

\* The loop ends with the update and the number of writes that flood_fill
\* gives as a whole.
LoopIsTheCall ==
    Returned =>
        LET filled == flood_fill(last.before, tiles, last.start, brush)
        IN  trans_update = filled.update /\ Len(last.written) = filled.writes

\* No cell was written twice, and none outside the bounding rectangle of
\* the tiles extended by the seed.
WrittenOnceWithinBounds ==
    InLoop =>
        /\ \A i, j \in 1..Len(last.written) :
                last.written[i] = last.written[j] => i = j
        /\ \A i \in 1..Len(last.written) :
                last.written[i] \in ExtendedBounds(tiles, last.start)

\* C33: flood_fill terminates for every tile grid, seed and brush: the work
\* stack becomes empty, each cell is written at most once, and no cell
\* outside the bounding rectangle extended by the seed is written.
C33_Terminates == []WrittenOnceWithinBounds /\ (InLoop ~> Returned)

\* C33 witness: a call from a seed outside the map has returned after it
\* wrote more than five cells around an earlier entry.
C33_Witness ==
    /\ Returned
    /\ Len(last.written) > 5
    /\ last.start \notin FillPositions
    /\ DOMAIN trans_update # {last.written[i] : i \in 1..Len(last.written)}

=============================================================================
